---- MODULE Spec2Model ----
(***************************************************************************)
(* State-machine model of playwright-ibutsu.                               *)
(*                                                                         *)
(* Part 1: IbutsuSender (src/src/sender.ts).  The sender is a single       *)
(* cooperative control flow; every `await` of a remote call or of a sleep  *)
(* is a step of the machine.  The remote server is the environment: each   *)
(* attempt of an API method either resolves with a value or rejects with   *)
(* an error, chosen nondeterministically.                                  *)
(*                                                                         *)
(* Three specifications share the actions:                                 *)
(*   Spec        one sendData on a fresh sender (sendToServer)             *)
(*   SpecOps     addOrUpdateRun or addResult invoked directly, the         *)
(*               attempts rejecting with every kind of thrown value        *)
(*   SpecUpload  uploadArtifacts invoked directly, with every kind of      *)
(*               artifact content                                          *)
(*                                                                         *)
(* Part 2: the Artifact Store of TestRun and TestResult (src/src/types.ts) *)
(* as objects on a heap, so that sharing between the store and the         *)
(* mappings handed out by getArtifacts is visible.                         *)
(*   SpecStore   addArtifact and getArtifacts on a Run and a Result, and   *)
(*               a caller editing the mappings it was handed               *)
(*                                                                         *)
(* Part 3: IbutsuArchiver (src/src/archiver.ts) over a file system whose   *)
(* operations may fail.                                                    *)
(*   SpecArchive createArchive invoked directly                            *)
(*                                                                         *)
(* Part 4: IbutsuReporter (src/src/reporter.ts) with the configuration     *)
(* functions of src/src/config.ts; the reporter's archive sink is the      *)
(* archiver of part 3.                                                     *)
(*   SpecReporter  constructor, onBegin, onTestEnd, onEnd                  *)
(*   SpecConfig    the configuration functions called directly             *)
(*                                                                         *)
(* Part 6: S3Uploader (src/src/s3-uploader.ts) over a local directory and  *)
(* a bucket whose operations may fail.                                     *)
(*   SpecS3        uploadToS3, and uploadArchives called again             *)
(*                                                                         *)
(* Part 7: the constructors of TestRun and TestResult and isValidUUID      *)
(* (src/src/types.ts), called directly.                                    *)
(*   SpecTypes     one call, with every kind of argument and environment   *)
(*                                                                         *)
(* Two further specifications reuse the actions of parts 1 and 4:          *)
(*   SpecReuse     one sender used for several sendData calls              *)
(*   SpecRestart   a reporter whose onBegin is called again                *)
(***************************************************************************)
EXTENDS Integers, Sequences, FiniteSets, TLC

VARIABLES
    hasServerError,  \* IbutsuSender.hasServerError
    serverErrors,    \* IbutsuSender.serverErrors (sequence of String(error))
    pc,              \* control point of the sender's single control flow
    op,              \* public operation in progress
    run,             \* argument `run` of the operation in progress / last one
    results,         \* argument `results` of sendData
    stage,           \* position inside sendData: 1 run, 2 run artifacts,
                     \*   3 results loop, 4 final run update
    ri,              \* index of the Result the results loop is at
    ua,              \* frame of uploadArtifacts: id, artifacts, isRun, i
    call,            \* frame of the makeCall in progress
    lastCall,        \* history: frame of the makeCall that returned last
    trace,           \* history: the remote calls made, in the order of their
                     \*   first attempt (a retry adds nothing)
    failedCalls,     \* history: the makeCalls that returned null
    handled,         \* history: every artifact uploadArtifact was called with
    ret,             \* <<b>> once sendData has returned b, <<>> before
    faults,          \* rejections the environment may still inject
    opsDone          \* public operations completed on this sender

VARIABLES
    heap,            \* the ArtifactMap objects: heap[ref] is the mapping of
                     \*   object ref
    snaps,           \* the references getArtifacts has returned, in order
    lastOp           \* history: the last operation on an Artifact Store

VARIABLES
    apc,             \* control point of IbutsuArchiver.create
    arun,            \* argument `run` of create
    aresults,        \* argument `results` of create
    ai,              \* entity create is at: 0 the Run, i the i-th Result
    aj,              \* item of the entity: 0 its json file, j its j-th artifact
    files,           \* file system: the regular files and what they hold
    dirs,            \* file system: the directories
    tarballs,        \* file system: the tar.gz archives and their members
    attempts,        \* history: the writes attempted and how they ended
    rejectedAt,      \* history: the operation whose failure create rejected with
    afaults,         \* failures the file system may still inject
    aret             \* <<path>> once create has returned path, <<>> before

VARIABLES
    rpc,             \* control point of the reporter: which hook Playwright
                     \*   calls next, or where onEnd is
    enabled,         \* IbutsuReporter.enabled
    config,          \* IbutsuReporter.config
    env,             \* process.env
    thisRun,         \* IbutsuReporter.run
    thisResults,     \* IbutsuReporter.results, in insertion order
    now,             \* Date.now()
    events,          \* history: the onTestEnd events Playwright has sent
    sinks,           \* history: the sinks invoked and what they were handed
    stoppedAt        \* history: <<t>> once onEnd has called stopTimer at t

VARIABLES
    cfgCall          \* the last call of a configuration function: its
                     \*   arguments and what it returned

VARIABLES
    s3pc,            \* control point of uploadToS3 / uploadArchives
    s3bucket,        \* S3Uploader.bucketName
    s3dir,           \* the local directory: its entries in readdir order
    s3store,         \* the bucket: the size of the object under each key
    s3files,         \* `files` of uploadArchives
    s3i,             \* index of the file the loop is at
    s3urls,          \* `uploadedUrls` of uploadArchives
    s3errors,        \* `errors` of uploadArchives
    s3calls,         \* history: the file-system and S3 operations issued
    s3rets,          \* history: what each uploadArchives returned
    s3faults,        \* failures the environment may still inject
    s3run            \* number of the uploadArchives in progress / last one

VARIABLES
    tcall            \* the call made on types.ts: its arguments, the
                     \*   environment and what it gave

senderVars == <<hasServerError, serverErrors, pc, op, run, results, stage, ri,
                ua, call, lastCall, trace, failedCalls, handled, ret, faults,
                opsDone>>

storeVars == <<heap, snaps, lastOp>>

archiverVars == <<apc, arun, aresults, ai, aj, files, dirs, tarballs,
                  attempts, rejectedAt, afaults, aret>>

reporterVars == <<rpc, enabled, config, env, thisRun, thisResults, now,
                  events, sinks, stoppedAt>>

configVars == <<cfgCall>>

s3Vars == <<s3pc, s3bucket, s3dir, s3store, s3files, s3i, s3urls, s3errors,
            s3calls, s3rets, s3faults, s3run>>

typesVars == <<tcall>>

vars == <<senderVars, storeVars, archiverVars, reporterVars, configVars,
          s3Vars, typesVars>>

----------------------------------------------------------------------------
(* Program constants *)

UPLOAD_LIMIT == 5 * 1024 * 1024
MAX_CALL_RETRIES == 3
RETRY_BASE_DELAY == 1000
RETRY_BACKOFF_FACTOR == 2
RETRIABLE_ERRORS ==
    <<"ECONNRESET", "ETIMEDOUT", "ECONNREFUSED", "ENOTFOUND", "ENETUNREACH">>

(* Bounds of the model *)

MaxResults == 2      \* Results in one sendData
MaxArtifacts == 1    \* artifacts in the arguments of one sendData
MaxUploads == 2      \* artifacts in the arguments of one uploadArtifacts
MaxFaults == 3       \* rejected attempts in one behaviour
MaxSnapshots == 1    \* mappings handed out by getArtifacts in one behaviour
MaxArchResults == 2   \* Results in one createArchive
MaxArchArtifacts == 2 \* artifacts in the arguments of one createArchive
MaxArchFaults == 2   \* file-system failures of the environment's in one behaviour
MaxTests == 2        \* onTestEnd events in one behaviour
MaxS3Files == 2      \* entries of the directory uploadArchives scans
MaxS3Faults == 1     \* failures of the file system and of S3 in one behaviour
MaxS3Runs == 2       \* calls of uploadArchives on one uploader
MaxSendData == 2     \* calls of sendData on one sender

----------------------------------------------------------------------------
(* Values *)

Obj == "object"            \* a response object (truthy)
Undefined == "undefined"   \* a resolved call without a value (falsy)
Null == "null"             \* makeCall's failure value
Pending == "pending"       \* makeCall has not returned yet
None == "none"

Truthy(v) == v = Obj

(* A thrown value: an Error instance with a message, or any other value    *)
(* whose string form is `message`.  Messages are sequences of words.       *)
Err(msg) == [isError |-> TRUE, message |-> msg]
NonErr(msg) == [isError |-> FALSE, message |-> msg]

(* String.prototype.includes, at word granularity *)
Includes(msg, word) == \E i \in 1..Len(msg) : msg[i] = word

(* String(error): "Error: <message>" for an Error, the value itself else *)
StringOf(e) == IF e.isError THEN <<"Error:">> \o e.message ELSE e.message

RECURSIVE Pow(_, _)
Pow(b, n) == IF n = 0 THEN 1 ELSE b * Pow(b, n - 1)

(* Artifact contents: Buffer | string.  A string may name a regular file. *)
NoFile == -1
Buf(n) == [kind |-> "buffer", length |-> n, fileSize |-> NoFile]
Str(n, fsize) == [kind |-> "string", length |-> n, fileSize |-> fsize]

FileNames == <<"log.txt", "trace.zip", "video.webm", "stdout.txt">>
(* the ids uuidv4() gives the Runs created without one *)
RunIds ==
    <<"7c9e6679-7425-40de-944b-e07fc1f90ae7",
      "0f8fad5b-d9cb-469f-a165-70867728950e">>
RunId == RunIds[1]
ResultIds == <<"res-1", "res-2", "res-3", "res-4">>

----------------------------------------------------------------------------
(* ArtifactDataHandler *)

getSize(data) ==
    IF data.kind = "buffer" THEN data.length
    ELSE IF data.fileSize # NoFile THEN data.fileSize
    ELSE data.length

(* mutation: the ceiling itself is accepted *)
isSizeAcceptable_AtMost(data) == getSize(data) <= UPLOAD_LIMIT

isSizeAcceptable(data) == getSize(data) < UPLOAD_LIMIT

(* length of the Buffer handed to the upload call *)
getPreparedData(data) ==
    IF data.kind = "buffer" THEN data.length
    ELSE IF data.fileSize # NoFile THEN data.fileSize
    ELSE data.length

(* mutation: every rejection is taken for a network error *)
isRetriableError_RetriesAll(e) == TRUE

isRetriableError(e) ==
    IF e.isError
    THEN \E k \in 1..Len(RETRIABLE_ERRORS) : Includes(e.message, RETRIABLE_ERRORS[k])
    ELSE FALSE

----------------------------------------------------------------------------
(* Frames *)

NoRun == [id |-> None, artifacts |-> <<>>]
NoUA == [id |-> None, artifacts |-> <<>>, isRun |-> FALSE, i |-> 0]
NoCall == [method |-> None, id |-> None, filename |-> None, bytes |-> 0,
           hide |-> FALSE, retries |-> 0, attempts |-> 0, thrown |-> <<>>,
           resolved |-> None, delays |-> <<>>, errs0 |-> 0, ret |-> Pending]

(* Entry of makeCall: retries = 0.  The other fields are history: the      *)
(* number of attempts made, the errors the attempts rejected with, the     *)
(* value an attempt resolved with, the sleeps made, the length of          *)
(* serverErrors on entry, and the value makeCall returned.                 *)
NewCall(method, id, filename, bytes, hide, nerrs) ==
    [method |-> method, id |-> id, filename |-> filename, bytes |-> bytes,
     hide |-> hide, retries |-> 0, attempts |-> 0, thrown |-> <<>>,
     resolved |-> None, delays |-> <<>>, errs0 |-> nerrs, ret |-> Pending]

(* a remote call, as the server sees it *)
Attempt(c) ==
    [method |-> c.method, id |-> c.id, filename |-> c.filename,
     bytes |-> c.bytes]

(* the calls made so far, once frame c makes an attempt *)
TraceAfter(c) == IF c.attempts = 0 THEN Append(trace, Attempt(c)) ELSE trace

(* a makeCall that returned null *)
Failed(c) == [method |-> c.method, id |-> c.id, attempts |-> c.attempts]

InitSender ==
    /\ hasServerError = FALSE
    /\ serverErrors = <<>>
    /\ pc = "idle"
    /\ op = None
    /\ run = NoRun
    /\ results = <<>>
    /\ stage = 0
    /\ ri = 0
    /\ ua = NoUA
    /\ call = NoCall
    /\ lastCall = NoCall
    /\ trace = <<>>
    /\ failedCalls = {}
    /\ handled = <<>>
    /\ ret = <<>>
    /\ faults = MaxFaults
    /\ opsDone = 0

----------------------------------------------------------------------------
(* Inputs *)

(* the ArtifactMaps of at most max entries with contents in C, in          *)
(* Object.entries order: entry i is named FileNames[i]                     *)
ArtifactMaps(C, max) ==
    UNION { { [i \in 1..n |-> [filename |-> FileNames[i], data |-> f[i]]] :
              f \in [1..n -> C] } : n \in 0..max }

Runs(C) == { [id |-> RunId, artifacts |-> a] : a \in ArtifactMaps(C, MaxArtifacts) }

ResultLists(C) ==
    UNION { { [i \in 1..n |-> [id |-> ResultIds[i], artifacts |-> f[i]]] :
              f \in [1..n -> ArtifactMaps(C, MaxArtifacts)] } : n \in 0..MaxResults }

RECURSIVE CountArtifacts(_)
CountArtifacts(rs) ==
    IF rs = <<>> THEN 0 ELSE Len(Head(rs).artifacts) + CountArtifacts(Tail(rs))

(* the arguments of one sendData: at most MaxResults Results and at most   *)
(* MaxArtifacts artifacts in all                                           *)
Sessions(C) ==
    { s \in Runs(C) \X ResultLists(C) :
        Len(s[1].artifacts) + CountArtifacts(s[2]) <= MaxArtifacts }

(* one byte under the ceiling, and exactly at the ceiling *)
SessionContents == { Buf(UPLOAD_LIMIT - 1), Buf(UPLOAD_LIMIT) }

(* buffers, paths of regular files (12-byte path), and plain text *)
OpContents ==
    { Buf(UPLOAD_LIMIT - 1), Buf(UPLOAD_LIMIT),
      Str(12, UPLOAD_LIMIT + 1), Str(UPLOAD_LIMIT - 1, NoFile) }

(* what an attempt may reject with *)
SessionErrors ==
    { Err(<<"read", "ECONNRESET">>), Err(<<"Bad", "Request">>) }

OpErrors ==
    { Err(<<"read", "ECONNRESET">>), Err(<<"connect", "ETIMEDOUT">>),
      Err(<<"connect", "ECONNREFUSED">>), Err(<<"getaddrinfo", "ENOTFOUND">>),
      Err(<<"connect", "ENETUNREACH">>), Err(<<"Bad", "Request">>),
      NonErr(<<"ECONNRESET">>) }

(* what an attempt may resolve with: getRun yields a run or nothing *)
Responses(method) == IF method = "getRun" THEN {Obj, Undefined} ELSE {Obj}

----------------------------------------------------------------------------
(* makeCall, lines 168-209 *)

(* mutation: the exponent is the number of retries, not one less *)
Delay_ExponentOff(retries) == RETRY_BASE_DELAY * Pow(RETRY_BACKOFF_FACTOR, retries)

Delay(retries) == RETRY_BASE_DELAY * Pow(RETRY_BACKOFF_FACTOR, retries - 1)

(* lines 178-205, the catch block: what makeCall does with a rejection e   *)
(* when its frame is c: the new value of retries, whether it sleeps        *)
(* (and how long) before another attempt or leaves the loop, and whether   *)
(* it records the error                                                    *)
(* mutation: a network error is recorded on every failed attempt *)
Catch_RecordsEveryFailure(c, e) ==
    IF isRetriableError(e)
    THEN IF c.retries + 1 < MAX_CALL_RETRIES
         THEN [retries |-> c.retries + 1, again |-> TRUE,
               delay |-> Delay(c.retries + 1), record |-> ~c.hide]
         ELSE [retries |-> c.retries + 1, again |-> FALSE,
               delay |-> 0, record |-> ~c.hide]
    ELSE [retries |-> c.retries, again |-> FALSE,
          delay |-> 0, record |-> ~c.hide]

(* mutation: the loop allows one attempt more *)
Catch_OneMoreAttempt(c, e) ==
    IF isRetriableError(e)
    THEN IF c.retries + 1 <= MAX_CALL_RETRIES
         THEN [retries |-> c.retries + 1, again |-> TRUE,
               delay |-> Delay(c.retries + 1), record |-> FALSE]
         ELSE [retries |-> c.retries + 1, again |-> FALSE,
               delay |-> 0, record |-> ~c.hide]
    ELSE [retries |-> c.retries, again |-> FALSE,
          delay |-> 0, record |-> ~c.hide]

(* mutation: a non-transient error is retried at once *)
Catch_RetriesNonTransient(c, e) ==
    IF isRetriableError(e)
    THEN IF c.retries + 1 < MAX_CALL_RETRIES
         THEN [retries |-> c.retries + 1, again |-> TRUE,
               delay |-> Delay(c.retries + 1), record |-> FALSE]
         ELSE [retries |-> c.retries + 1, again |-> FALSE,
               delay |-> 0, record |-> ~c.hide]
    ELSE [retries |-> c.retries, again |-> TRUE,
          delay |-> 0, record |-> ~c.hide]

Catch(c, e) ==
    IF isRetriableError(e)
    THEN IF c.retries + 1 < MAX_CALL_RETRIES
         THEN [retries |-> c.retries + 1, again |-> TRUE,
               delay |-> Delay(c.retries + 1), record |-> FALSE]
         ELSE [retries |-> c.retries + 1, again |-> FALSE,
               delay |-> 0, record |-> ~c.hide]
    ELSE [retries |-> c.retries, again |-> FALSE,
          delay |-> 0, record |-> ~c.hide]

(* lines 193-194 and 200-201 *)
(* mutation: the flag is not raised with the recorded error *)
FlagAfter_NeverSet(record) == hasServerError

(* hasErrors, lines 329-331, and getErrors, lines 336-338 *)
hasErrors == hasServerError
getErrors == serverErrors

FlagAfter(record) == IF record THEN TRUE ELSE hasServerError
ErrorsAfter(record, e) ==
    IF record THEN Append(serverErrors, StringOf(e)) ELSE serverErrors

(* first call of addOrUpdateRun: the hidden getRun lookup, lines 218-222 *)
(* mutation: the lookup is made without hideException *)
LookupCall_NotHidden(r, nerrs) == NewCall("getRun", r.id, None, 0, FALSE, nerrs)

LookupCall(r, nerrs) == NewCall("getRun", r.id, None, 0, TRUE, nerrs)

(* second call of addOrUpdateRun, lines 224-233 *)
PutCall(c, v, nerrs) ==
    NewCall(IF Truthy(v) THEN "updateRun" ELSE "addRun",
            c.id, None, 0, FALSE, nerrs)

(* line 309: the k-th Result the for-of loop visits *)
(* mutation: the loop visits the Results last to first *)
ResultAt_Reversed(rs, k) == rs[Len(rs) - k + 1]

ResultAt(rs, k) == rs[k]

(* addResult, lines 239-242 *)
AddResultCall(res, nerrs) == NewCall("addResult", res.id, None, 0, FALSE, nerrs)

(* the makeCall of uploadArtifact, lines 263-276 *)
UploadCall(id, entry, nerrs) ==
    NewCall("uploadArtifact", id, entry.filename,
            getPreparedData(entry.data), FALSE, nerrs)

(* entry of uploadArtifacts, lines 285-290 *)
ArtifactsFrame(id, artifacts, isRun) ==
    [id |-> id, artifacts |-> artifacts, isRun |-> isRun, i |-> 1]

(* a public operation invoked directly on the sender returns *)
OpReturns ==
    /\ pc' = "idle"
    /\ op' = None
    /\ opsDone' = opsDone + 1

(* makeCall frame c returns v; control goes back to the caller of makeCall *)
Returned(c, v) ==
    /\ lastCall' = [c EXCEPT !.ret = v]
    /\ failedCalls' = IF v = Null THEN failedCalls \cup {Failed(c)} ELSE failedCalls
    /\ CASE c.method = "getRun" ->
              /\ call' = PutCall(c, v, Len(serverErrors'))
              /\ pc' = "call"
              /\ UNCHANGED <<op, stage, ri, ua, ret, opsDone>>
         [] c.method \in {"updateRun", "addRun"} /\ op = "addOrUpdateRun" ->
              /\ call' = NoCall
              /\ OpReturns
              /\ UNCHANGED <<stage, ri, ua, ret>>
         [] c.method \in {"updateRun", "addRun"} /\ op = "sendData" /\ stage = 1 ->
              \* line 306
              /\ call' = NoCall
              /\ ua' = ArtifactsFrame(run.id, run.artifacts, TRUE)
              /\ stage' = 2
              /\ pc' = "artifacts"
              /\ UNCHANGED <<op, ri, ret, opsDone>>
         [] c.method \in {"updateRun", "addRun"} /\ op = "sendData" /\ stage = 4 ->
              \* line 317
              /\ call' = NoCall
              /\ pc' = "return"
              /\ UNCHANGED <<op, stage, ri, ua, ret, opsDone>>
         [] c.method = "addResult" /\ op = "addResult" ->
              /\ call' = NoCall
              /\ OpReturns
              /\ UNCHANGED <<stage, ri, ua, ret>>
         [] c.method = "addResult" /\ op = "sendData" ->
              \* line 311
              /\ call' = NoCall
              /\ ua' = ArtifactsFrame(ResultAt(results, ri).id,
                                    ResultAt(results, ri).artifacts, FALSE)
              /\ pc' = "artifacts"
              /\ UNCHANGED <<op, stage, ri, ret, opsDone>>
         [] c.method = "uploadArtifact" ->
              \* uploadArtifact returns into the loop of uploadArtifacts
              /\ call' = NoCall
              /\ ua' = [ua EXCEPT !.i = @ + 1]
              /\ pc' = "artifacts"
              /\ UNCHANGED <<op, stage, ri, ret, opsDone>>

(* line 177: the awaited API method resolves with v *)
ApiResolves(v) ==
    /\ pc = "call"
    /\ v \in Responses(call.method)
    /\ trace' = TraceAfter(call)
    /\ UNCHANGED <<hasServerError, serverErrors, faults, run, results, handled>>
    /\ Returned([call EXCEPT !.attempts = @ + 1, !.resolved = v], v)

(* lines 178-205: the awaited API method rejects with e *)
ApiRejects(e) ==
    /\ pc = "call"
    /\ faults > 0
    /\ faults' = faults - 1
    /\ trace' = TraceAfter(call)
    /\ UNCHANGED <<run, results, handled>>
    /\ LET k == Catch(call, e)
           c == [call EXCEPT !.attempts = @ + 1, !.thrown = Append(@, e),
                             !.retries = k.retries]
       IN  /\ hasServerError' = FlagAfter(k.record)
           /\ serverErrors' = ErrorsAfter(k.record, e)
           /\ IF k.again
              THEN /\ call' = [c EXCEPT !.delays = Append(@, k.delay)]
                   /\ pc' = "sleep"
                   /\ UNCHANGED <<lastCall, failedCalls, op, stage, ri, ua, ret,
                                  opsDone>>
              ELSE Returned(c, Null)

(* line 187: the sleep before the next attempt is over *)
Sleep ==
    /\ pc = "sleep"
    /\ pc' = "call"
    /\ UNCHANGED <<hasServerError, serverErrors, op, run, results, stage, ri,
                   ua, call, lastCall, trace, failedCalls, handled, ret, faults, opsDone>>

----------------------------------------------------------------------------
(* uploadArtifacts / uploadArtifact, lines 247-297 *)

(* one iteration of the loop of uploadArtifacts: uploadArtifact up to its  *)
(* makeCall, or its early return when the size is not acceptable           *)
UploadArtifact ==
    /\ pc = "artifacts"
    /\ ua.i <= Len(ua.artifacts)
    /\ LET entry == ua.artifacts[ua.i] IN
       IF ~isSizeAcceptable(entry.data)
       THEN /\ ua' = [ua EXCEPT !.i = @ + 1]
            /\ UNCHANGED <<pc, call>>
       ELSE /\ call' = UploadCall(ua.id, entry, Len(serverErrors))
            /\ pc' = "call"
            /\ UNCHANGED ua
    /\ handled' = Append(handled, [id |-> ua.id, filename |-> ua.artifacts[ua.i].filename,
                                   data |-> ua.artifacts[ua.i].data])
    /\ UNCHANGED <<hasServerError, serverErrors, op, run, results, stage, ri,
                   lastCall, trace, failedCalls, ret, faults, opsDone>>

(* the loop of uploadArtifacts is over *)
UploadArtifactsReturns ==
    /\ pc = "artifacts"
    /\ ua.i > Len(ua.artifacts)
    /\ CASE op = "uploadArtifacts" ->
              /\ OpReturns
              /\ UNCHANGED <<stage, ri>>
         [] op = "sendData" /\ stage = 2 ->
              \* line 309: enter the results loop
              /\ stage' = 3
              /\ ri' = 1
              /\ pc' = "results"
              /\ UNCHANGED <<op, opsDone>>
         [] op = "sendData" /\ stage = 3 ->
              \* next iteration of the results loop
              /\ ri' = ri + 1
              /\ pc' = "results"
              /\ UNCHANGED <<op, stage, opsDone>>
    /\ UNCHANGED <<hasServerError, serverErrors, run, results, ua, call,
                   lastCall, trace, failedCalls, handled, ret, faults>>

----------------------------------------------------------------------------
(* sendData, lines 302-324.  Nothing between line 303 and line 317 can     *)
(* throw (makeCall and uploadArtifact catch every rejection, toDict and    *)
(* getArtifacts only copy fields), so the catch of lines 318-323 has no    *)
(* transition.                                                             *)

(* sendToServer: sendData on a freshly constructed sender, up to the first *)
(* attempt of getRun                                                       *)
SendData(r, rs) ==
    /\ pc = "idle"
    /\ opsDone = 0
    /\ op' = "sendData"
    /\ run' = r
    /\ results' = rs
    /\ stage' = 1
    /\ ri' = 0
    /\ call' = LookupCall(r, Len(serverErrors))
    /\ pc' = "call"
    /\ ret' = <<>>
    /\ UNCHANGED <<hasServerError, serverErrors, ua, lastCall, trace, failedCalls, handled, faults,
                   opsDone>>

(* mutation: a later sendData starts from an empty error list *)
SendDataAgain_ResetsErrors(r, rs) ==
    /\ pc = "idle"
    /\ opsDone \in 1..(MaxSendData - 1)
    /\ op' = "sendData"
    /\ run' = r
    /\ results' = rs
    /\ stage' = 1
    /\ ri' = 0
    /\ hasServerError' = FALSE
    /\ serverErrors' = <<>>
    /\ call' = LookupCall(r, 0)
    /\ pc' = "call"
    /\ ret' = <<>>
    /\ UNCHANGED <<ua, lastCall, trace, failedCalls, handled, faults, opsDone>>

(* sendData called on a sender that has completed a sendData: the fields  *)
(* hasServerError and serverErrors are those the earlier call left         *)
SendDataAgain(r, rs) ==
    /\ pc = "idle"
    /\ opsDone \in 1..(MaxSendData - 1)
    /\ op' = "sendData"
    /\ run' = r
    /\ results' = rs
    /\ stage' = 1
    /\ ri' = 0
    /\ call' = LookupCall(r, Len(serverErrors))
    /\ pc' = "call"
    /\ ret' = <<>>
    /\ UNCHANGED <<hasServerError, serverErrors, ua, lastCall, trace, failedCalls, handled, faults,
                   opsDone>>

(* lines 309-310: addResult for the next Result *)
SendDataNextResult ==
    /\ pc = "results"
    /\ ri <= Len(results)
    /\ call' = AddResultCall(ResultAt(results, ri), Len(serverErrors))
    /\ pc' = "call"
    /\ UNCHANGED <<hasServerError, serverErrors, op, run, results, stage, ri,
                   ua, lastCall, trace, failedCalls, handled, ret, faults, opsDone>>

(* mutation: the results loop is left as soon as an error is recorded *)
SendDataFinalUpdate_StopsOnError ==
    /\ pc = "results"
    /\ (ri > Len(results) \/ hasServerError)
    /\ stage' = 4
    /\ call' = LookupCall(run, Len(serverErrors))
    /\ pc' = "call"
    /\ UNCHANGED <<hasServerError, serverErrors, op, run, results, ri, ua,
                   lastCall, trace, failedCalls, handled, ret, faults, opsDone>>

(* line 315: the final addOrUpdateRun *)
SendDataFinalUpdate ==
    /\ pc = "results"
    /\ ri > Len(results)
    /\ stage' = 4
    /\ call' = LookupCall(run, Len(serverErrors))
    /\ pc' = "call"
    /\ UNCHANGED <<hasServerError, serverErrors, op, run, results, ri, ua,
                   lastCall, trace, failedCalls, handled, ret, faults, opsDone>>

(* line 317: return !this.hasServerError *)
SendDataReturns ==
    /\ pc = "return"
    /\ ret' = <<~hasServerError>>
    /\ OpReturns
    /\ UNCHANGED <<hasServerError, serverErrors, run, results, stage, ri, ua,
                   call, lastCall, trace, failedCalls, handled, faults>>

----------------------------------------------------------------------------
(* the public operations invoked directly on a freshly constructed sender *)

AddOrUpdateRun(r) ==
    /\ pc = "idle"
    /\ opsDone = 0
    /\ op' = "addOrUpdateRun"
    /\ run' = r
    /\ call' = LookupCall(r, Len(serverErrors))
    /\ pc' = "call"
    /\ UNCHANGED <<hasServerError, serverErrors, results, stage, ri, ua,
                   lastCall, trace, failedCalls, handled, ret, faults, opsDone>>

AddResult(res) ==
    /\ pc = "idle"
    /\ opsDone = 0
    /\ op' = "addResult"
    /\ call' = AddResultCall(res, Len(serverErrors))
    /\ pc' = "call"
    /\ UNCHANGED <<hasServerError, serverErrors, run, results, stage, ri, ua,
                   lastCall, trace, failedCalls, handled, ret, faults, opsDone>>

UploadArtifacts(id, artifacts, isRun) ==
    /\ pc = "idle"
    /\ opsDone = 0
    /\ op' = "uploadArtifacts"
    /\ ua' = ArtifactsFrame(id, artifacts, isRun)
    /\ pc' = "artifacts"
    /\ UNCHANGED <<hasServerError, serverErrors, run, results, stage, ri, call,
                   lastCall, trace, failedCalls, handled, ret, faults, opsDone>>

----------------------------------------------------------------------------
(* Part 2: the Artifact Store of TestRun and TestResult *)

(* the two classes that own a store *)
Entities == {"TestRun", "TestResult"}

(* the object the private field _artifacts of the entity refers to *)
StoreRef(e) == IF e = "TestRun" THEN 1 ELSE 2

StoreNames == {"log.txt", "trace.zip"}
StoreContents == {Buf(3), Str(5, NoFile)}

(* what a caller writes into a mapping it was handed *)
CallerContents == {Str(7, NoFile)}

(* an ArtifactMap is a function from the filenames it holds to contents *)
EmptyMap == [n \in {} |-> Buf(0)]

(* obj[key] = value *)
Assign(obj, key, value) ==
    [n \in DOMAIN obj \cup {key} |-> IF n = key THEN value ELSE obj[n]]

(* delete obj[key] *)
Delete(obj, key) == [n \in DOMAIN obj \ {key} |-> obj[n]]

(* mutation: a filename already held keeps its first content *)
addArtifact_KeepsFirst(artifacts, filename, data) ==
    IF filename \in DOMAIN artifacts THEN artifacts
    ELSE Assign(artifacts, filename, data)

(* this._artifacts[filename] = data: the mapping afterwards *)
addArtifact(artifacts, filename, data) == Assign(artifacts, filename, data)

(* mutation: the store's own mapping is handed out *)
getArtifacts_Alias(h, ref) == [heap |-> h, ref |-> ref]

(* return { ...this._artifacts }: a new object holding the store's entries *)
getArtifacts(h, ref) == [heap |-> Append(h, h[ref]), ref |-> Len(h) + 1]

NoOp == [op |-> None, entity |-> None, filename |-> None, data |-> Buf(0),
         replaced |-> FALSE]

InitStore ==
    /\ heap = <<EmptyMap, EmptyMap>>
    /\ snaps = <<>>
    /\ lastOp = NoOp

AddArtifact(e, filename, data) ==
    /\ heap' = [heap EXCEPT ![StoreRef(e)] = addArtifact(@, filename, data)]
    /\ lastOp' = [op |-> "addArtifact", entity |-> e, filename |-> filename,
                  data |-> data,
                  replaced |-> /\ filename \in DOMAIN heap[StoreRef(e)]
                               /\ heap[StoreRef(e)][filename] # data]
    /\ UNCHANGED snaps

GetArtifacts(e) ==
    /\ Len(snaps) < MaxSnapshots
    /\ LET got == getArtifacts(heap, StoreRef(e))
       IN  /\ heap' = got.heap
           /\ snaps' = Append(snaps, [ref |-> got.ref, of |-> e])
    /\ lastOp' = [NoOp EXCEPT !.op = "getArtifacts", !.entity = e]

(* the caller adds or replaces a key of the s-th mapping it was handed *)
CallerAssigns(s, key, value) ==
    /\ s \in 1..Len(snaps)
    /\ heap' = [heap EXCEPT ![snaps[s].ref] = Assign(@, key, value)]
    /\ lastOp' = [NoOp EXCEPT !.op = "callerAssigns", !.entity = snaps[s].of,
                              !.filename = key, !.data = value]
    /\ UNCHANGED snaps

(* the caller deletes a key of the s-th mapping it was handed *)
CallerDeletes(s, key) ==
    /\ s \in 1..Len(snaps)
    /\ key \in DOMAIN heap[snaps[s].ref]
    /\ heap' = [heap EXCEPT ![snaps[s].ref] = Delete(@, key)]
    /\ lastOp' = [NoOp EXCEPT !.op = "callerDeletes", !.entity = snaps[s].of,
                              !.filename = key]
    /\ UNCHANGED snaps

----------------------------------------------------------------------------
(* Part 3: IbutsuArchiver *)

(* Run and Result as the archiver and the reporter hold them.  start_time  *)
(* is <<>> for the empty string and <<t>> for the ISO string of instant t; *)
(* instants are in milliseconds and durations in thousandths of a second,  *)
(* so that x / 1000 seconds is the integer x.                              *)
ZeroSummary ==
    [failures |-> 0, errors |-> 0, xfailures |-> 0, xpasses |-> 0,
     skips |-> 0, tests |-> 0, collected |-> 0, not_run |-> 0]

(* new TestRun({...}) without id, start_time, duration or summary given *)
NewTestRun(id) ==
    [id |-> id, start_time |-> <<>>, duration |-> 0, summary |-> ZeroSummary,
     artifacts |-> <<>>, start_unix_time |-> 0]

(* new TestResult({test_id, result, ...}) *)
NewTestResult(id, test_id, result) ==
    [id |-> id, test_id |-> test_id, result |-> result, duration |-> 0,
     start_time |-> <<>>, artifacts |-> <<>>, start_unix_time |-> 0]

(* TestRun.toDict *)
RunToDict(r) ==
    [id |-> r.id, start_time |-> r.start_time, duration |-> r.duration,
     summary |-> r.summary]

(* TestResult.toDict *)
ResultToDict(r) ==
    [id |-> r.id, test_id |-> r.test_id, result |-> r.result,
     duration |-> r.duration, start_time |-> r.start_time]

(* Paths are sequences of segments below the output directory '.' *)
OutputDir == <<>>
Join(dir, name) == Append(dir, name)
Dirname(p) == SubSeq(p, 1, Len(p) - 1)
Basename(p) == p[Len(p)]
Under(dir, p) == Len(p) > Len(dir) /\ SubSeq(p, 1, Len(dir)) = dir

(* constructor: path.join(outputDir, `${runId}.tar.gz`) and                *)
(* path.join(outputDir, '.ibutsu-temp', runId)                             *)
ArchivePath(runId) == Join(OutputDir, runId \o ".tar.gz")
TempDir(runId) == Join(Join(OutputDir, ".ibutsu-temp"), runId)

(* mutation: the Results are staged next to the Run *)
ResultDir_Flat(runId, resultId) == TempDir(runId)

(* addResult: path.join(this.tempDir, result.id) *)
ResultDir(runId, resultId) == Join(TempDir(runId), resultId)

(* what the files hold *)
Json(dict) == [kind |-> "json", body |-> dict]

(* writeArtifact: what ends up in the artifact's file *)
ArtifactFile(data) ==
    [kind |-> IF data.kind = "buffer" THEN "bytes"
              ELSE IF data.fileSize # NoFile THEN "copy" ELSE "utf-8",
     body |-> data]

(* isFilePath: the string names a regular file *)
isFilePath(data) == data.fileSize # NoFile

(* the file system.  A failed operation leaves it as it was. *)
NoFiles == [p \in {} |-> Json(0)]
WriteFile(fs, p, content) ==
    [q \in DOMAIN fs \cup {p} |-> IF q = p THEN content ELSE fs[q]]
Prefixes(p) == { SubSeq(p, 1, n) : n \in 0..Len(p) }
(* mkdir -p succeeds unless a file is in the way *)
CanMkdir(fs, p) == Prefixes(p) \cap DOMAIN fs = {}
(* a file can be written where its directory exists and no directory is *)
CanWrite(ds, p) == Dirname(p) \in ds /\ p \notin ds
(* rm -r *)
RemoveTree(fs, dir) == [q \in { p \in DOMAIN fs : ~Under(dir, p) } |-> fs[q]]
RemoveDirs(ds, dir) == { d \in ds : d # dir /\ ~Under(dir, d) }
(* rmdir succeeds on an empty directory *)
IsEmptyDir(fs, ds, dir) ==
    /\ \A p \in DOMAIN fs : ~Under(dir, p)
    /\ \A d \in ds : ~Under(dir, d)

(* tar.create({gzip, file, cwd}, [entry]): the members of the archive,     *)
(* named relative to cwd                                                   *)
TarEntries(fs, cwd, entry) ==
    LET top == Join(cwd, entry)
        members == { p \in DOMAIN fs : Under(top, p) }
    IN  [q \in { SubSeq(p, Len(cwd) + 1, Len(p)) : p \in members } |->
            fs[cwd \o q]]

(* the artifacts of the entity the archiver is at: the Run (0) or the      *)
(* i-th Result, in Object.entries order                                    *)
ArchArtifacts(i) == IF i = 0 THEN arun.artifacts ELSE aresults[i].artifacts

(* the directory the entity is staged in *)
ArchDir(i) ==
    IF i = 0 THEN TempDir(arun.id) ELSE ResultDir(arun.id, aresults[i].id)

(* mutation: the loop over the Results ends after the first Result *)
NextEntity_StopsEarly(i) ==
    IF i < 1 /\ i < Len(aresults)
    THEN [pc |-> "resultDir", i |-> i + 1, j |-> 0]
    ELSE [pc |-> "tar", i |-> i, j |-> 0]

(* createTempStructure, lines 52-54, and create, line 26: after entity i   *)
(* comes the next Result, and after the last one tar.create                *)
NextEntity(i) ==
    IF i < Len(aresults)
    THEN [pc |-> "resultDir", i |-> i + 1, j |-> 0]
    ELSE [pc |-> "tar", i |-> i, j |-> 0]

(* addRun, lines 73-75, and addResult, lines 95-97: after item j of        *)
(* entity i (0 is its json file) comes its next artifact                   *)
NextItem(i, j) ==
    IF j < Len(ArchArtifacts(i))
    THEN [pc |-> IF i = 0 THEN "runArtifacts" ELSE "resultArtifacts",
          i |-> i, j |-> j + 1]
    ELSE NextEntity(i)

Rejected(i, j) == [pc |-> "rejected", i |-> i, j |-> j]

(* mutation: writeArtifact lets the error out *)
ArtifactFailed_Propagates(next) == Rejected(next.i, next.j)

(* writeArtifact, lines 126-129: the error is logged and the caller goes   *)
(* on to `next`                                                            *)
ArtifactFailed(next) == next

(* mutation: cleanup lets the error out *)
CleanupFailed_Propagates(next) == Rejected(next.i, next.j)

(* cleanup, lines 158-160: the error is logged and create goes on to       *)
(* `next`                                                                  *)
CleanupFailed(next) == next

(* the outcomes of a file-system operation: it succeeds only if it can,    *)
(* and it may fail for a reason of the environment's                       *)
Outcomes(can) ==
    { ok \in BOOLEAN : IF ok THEN can ELSE ~can \/ afaults > 0 }
FaultsAfter(ok, can) == IF ~ok /\ can THEN afaults - 1 ELSE afaults

Attempted(kind, i, filename, ok) ==
    [kind |-> kind, owner |-> IF i = 0 THEN arun.id ELSE aresults[i].id,
     filename |-> filename, ok |-> ok]

InitArchiver ==
    /\ apc = "idle"
    /\ arun = NewTestRun(None)
    /\ aresults = <<>>
    /\ ai = 0
    /\ aj = 0
    /\ files = NoFiles
    /\ dirs = {OutputDir}
    /\ tarballs = [p \in {} |-> NoFiles]
    /\ attempts = {}
    /\ rejectedAt = None
    /\ afaults = MaxArchFaults
    /\ aret = <<>>

(* control moves to point n *)
Goto(n) ==
    /\ apc' = n.pc
    /\ ai' = n.i
    /\ aj' = n.j

(* createArchive(run, results): new IbutsuArchiver(run.id), then create *)
CreateArchive(r, rs) ==
    /\ apc = "idle"
    /\ arun' = r
    /\ aresults' = rs
    /\ Goto([pc |-> "mkdirTemp", i |-> 0, j |-> 0])
    /\ UNCHANGED <<files, dirs, tarballs, attempts, rejectedAt, afaults, aret>>

(* createTempStructure, line 46: mkdir(tempDir, {recursive}) *)
MkdirTemp ==
    /\ apc = "mkdirTemp"
    /\ LET dir == TempDir(arun.id)
           can == CanMkdir(files, dir)
       IN  \E ok \in Outcomes(can) :
             /\ dirs' = IF ok THEN dirs \cup Prefixes(dir) ELSE dirs
             /\ Goto(IF ok THEN [pc |-> "runJson", i |-> 0, j |-> 0]
                     ELSE Rejected(0, 0))
             /\ rejectedAt' = IF ok THEN rejectedAt ELSE "mkdir"
             /\ afaults' = FaultsAfter(ok, can)
    /\ UNCHANGED <<arun, aresults, files, tarballs, attempts, aret>>

(* addRun, lines 64-69: writeFile(run.json) *)
WriteRunJson ==
    /\ apc = "runJson"
    /\ LET p == Join(TempDir(arun.id), "run.json")
           can == CanWrite(dirs, p)
       IN  \E ok \in Outcomes(can) :
             /\ files' = IF ok THEN WriteFile(files, p, Json(RunToDict(arun)))
                         ELSE files
             /\ attempts' = attempts \cup {Attempted("run.json", 0, "run.json", ok)}
             /\ Goto(IF ok THEN NextItem(0, 0) ELSE Rejected(0, 0))
             /\ rejectedAt' = IF ok THEN rejectedAt ELSE "run.json"
             /\ afaults' = FaultsAfter(ok, can)
    /\ UNCHANGED <<arun, aresults, dirs, tarballs, aret>>

(* writeArtifact(dir, filename, data), lines 103-130, for artifact aj of   *)
(* entity ai: mkdir of the parent, then writeFile or copyFile              *)
WriteArtifact ==
    /\ apc \in {"runArtifacts", "resultArtifacts"}
    /\ LET a == ArchArtifacts(ai)[aj]
           p == Join(ArchDir(ai), a.filename)
           can == CanMkdir(files, Dirname(p)) /\ CanWrite(dirs, p)
       IN  \E ok \in Outcomes(can) :
             /\ files' = IF ok THEN WriteFile(files, p, ArtifactFile(a.data))
                         ELSE files
             /\ attempts' = attempts \cup {Attempted("artifact", ai, a.filename, ok)}
             /\ LET n == IF ok THEN NextItem(ai, aj)
                         ELSE ArtifactFailed(NextItem(ai, aj))
                IN  /\ Goto(n)
                    /\ rejectedAt' = IF n.pc = "rejected" THEN "artifact"
                                     ELSE rejectedAt
             /\ afaults' = FaultsAfter(ok, can)
    /\ UNCHANGED <<arun, aresults, dirs, tarballs, aret>>

(* addResult, lines 82-83: mkdir(resultDir, {recursive}) *)
MkdirResult ==
    /\ apc = "resultDir"
    /\ LET dir == ArchDir(ai)
           can == CanMkdir(files, dir)
       IN  \E ok \in Outcomes(can) :
             /\ dirs' = IF ok THEN dirs \cup Prefixes(dir) ELSE dirs
             /\ Goto(IF ok THEN [pc |-> "resultJson", i |-> ai, j |-> 0]
                     ELSE Rejected(ai, 0))
             /\ rejectedAt' = IF ok THEN rejectedAt ELSE "mkdir"
             /\ afaults' = FaultsAfter(ok, can)
    /\ UNCHANGED <<arun, aresults, files, tarballs, attempts, aret>>

(* addResult, lines 86-91: writeFile(result.json) *)
WriteResultJson ==
    /\ apc = "resultJson"
    /\ LET p == Join(ArchDir(ai), "result.json")
           can == CanWrite(dirs, p)
       IN  \E ok \in Outcomes(can) :
             /\ files' = IF ok
                         THEN WriteFile(files, p, Json(ResultToDict(aresults[ai])))
                         ELSE files
             /\ attempts' = attempts \cup
                                {Attempted("result.json", ai, "result.json", ok)}
             /\ Goto(IF ok THEN NextItem(ai, 0) ELSE Rejected(ai, 0))
             /\ rejectedAt' = IF ok THEN rejectedAt ELSE "result.json"
             /\ afaults' = FaultsAfter(ok, can)
    /\ UNCHANGED <<arun, aresults, dirs, tarballs, aret>>

(* mutation: create cleans up and returns after a failed tar.create *)
TarFailed_CleansUp(i, j) == [pc |-> "rm", i |-> i, j |-> j]

(* create, lines 26-36: tar.create is awaited outside any try, so its      *)
(* failure leaves create before cleanup and the return                     *)
TarFailed(i, j) == Rejected(i, j)

(* create, lines 26-33: tar.create of the staging directory *)
TarCreate ==
    /\ apc = "tar"
    /\ LET dir == TempDir(arun.id)
       IN  \E ok \in Outcomes(TRUE) :
             /\ tarballs' =
                    IF ok
                    THEN WriteFile(tarballs, ArchivePath(arun.id),
                                   TarEntries(files, Dirname(dir), Basename(dir)))
                    ELSE tarballs
             /\ Goto(IF ok THEN [pc |-> "rm", i |-> ai, j |-> aj]
                     ELSE TarFailed(ai, aj))
             /\ rejectedAt' = IF ok THEN rejectedAt ELSE "tar"
             /\ afaults' = FaultsAfter(ok, TRUE)
    /\ UNCHANGED <<arun, aresults, files, dirs, attempts, aret>>

(* cleanup, line 149: rm(tempDir, {recursive, force}); a failure ends      *)
(* cleanup, and create returns the archive path                            *)
CleanupRm ==
    /\ apc = "rm"
    /\ LET dir == TempDir(arun.id)
       IN  \E ok \in Outcomes(TRUE) :
             /\ files' = IF ok THEN RemoveTree(files, dir) ELSE files
             /\ dirs' = IF ok THEN RemoveDirs(dirs, dir) ELSE dirs
             /\ LET n == IF ok THEN [pc |-> "rmdir", i |-> ai, j |-> aj]
                         ELSE CleanupFailed([pc |-> "returned", i |-> ai, j |-> aj])
                IN  /\ Goto(n)
                    /\ rejectedAt' = IF n.pc = "rejected" THEN "cleanup"
                                     ELSE rejectedAt
                    /\ aret' = IF n.pc = "returned" THEN <<ArchivePath(arun.id)>>
                               ELSE aret
             /\ attempts' = attempts \cup {Attempted("rm", 0, ".ibutsu-temp", ok)}
             /\ afaults' = FaultsAfter(ok, TRUE)
    /\ UNCHANGED <<arun, aresults, tarballs>>

(* cleanup, lines 152-157: rmdir of the parent, its failure ignored; then  *)
(* create, line 38, returns the archive path                               *)
CleanupRmdir ==
    /\ apc = "rmdir"
    /\ LET parent == Dirname(TempDir(arun.id))
           can == IsEmptyDir(files, dirs, parent)
       IN  \E ok \in Outcomes(can) :
             /\ dirs' = IF ok THEN dirs \ {parent} ELSE dirs
             /\ attempts' = attempts \cup {Attempted("rmdir", 0, ".ibutsu-temp", ok)}
             /\ afaults' = FaultsAfter(ok, can)
    /\ Goto([pc |-> "returned", i |-> ai, j |-> aj])
    /\ aret' = <<ArchivePath(arun.id)>>
    /\ UNCHANGED <<arun, aresults, files, tarballs, rejectedAt>>

(* what createArchive is called with: a Run and at most MaxArchResults     *)
(* Results, holding at most MaxArchArtifacts artifacts in all              *)
ArchiveNames == <<"screenshot.png", "run.json", "result.json">>
ArchiveContents == { Buf(3), Str(12, 40), Str(5, NoFile) }

(* the ArtifactMaps of exactly n entries, in Object.entries order *)
ArchiveMaps(n) ==
    { [i \in 1..n |-> [filename |-> ArchiveNames[i], data |-> f[i]]] :
      f \in [1..n -> ArchiveContents] }

(* the lists of n Results that hold at most `budget` artifacts in all *)
RECURSIVE ArchiveResults(_, _)
ArchiveResults(n, budget) ==
    IF n = 0 THEN {<<>>}
    ELSE UNION { { Append(rs, [NewTestResult(ResultIds[n], "test", "passed")
                                   EXCEPT !.artifacts = a]) :
                   rs \in ArchiveResults(n - 1, budget - k), a \in ArchiveMaps(k) } :
                 k \in 0..budget }

ArchiveInputs ==
    UNION { { <<[NewTestRun(RunId) EXCEPT !.artifacts = a], rs>> :
              a \in ArchiveMaps(k),
              rs \in UNION { ArchiveResults(n, MaxArchArtifacts - k) :
                             n \in 0..MaxArchResults } } :
            k \in 0..MaxArchArtifacts }

----------------------------------------------------------------------------
(* Part 4: configuration (src/src/config.ts) *)

(* a setting that is a non-empty string *)
NonEmpty(v) == v # Undefined /\ v # ""

(* a value that is neither undefined nor the empty string is truthy *)
IsTruthy(v) == v # Undefined /\ v # ""

(* a ?? b *)
Coalesce(a, b) == IF a # Undefined THEN a ELSE b

(* mutation: a token in the reporter options is accepted *)
getConfigThrows_AcceptsToken(reporterConfig) == FALSE

(* getConfig, lines 13-18: a token in the reporter options is refused *)
getConfigThrows(reporterConfig) == NonEmpty(reporterConfig.token)

(* getConfig, lines 21-44.  The object it builds has no member `server`. *)
getConfig(reporterConfig, e) ==
    [mode |-> Coalesce(e.IBUTSU_MODE, reporterConfig.mode),
     token |-> e.IBUTSU_TOKEN,
     project |-> Coalesce(e.IBUTSU_PROJECT, reporterConfig.project),
     noArchive |-> e.IBUTSU_NO_ARCHIVE = "true" \/ reporterConfig.noArchive,
     s3Bucket |-> Coalesce(e.AWS_BUCKET, reporterConfig.s3Bucket)]

isArchiveMode(c) == c.mode = "archive"
isS3Mode(c) == c.mode = "s3"
isServerMode(c) == NonEmpty(c.mode) /\ c.mode # "archive" /\ c.mode # "s3"

(* mutation: the project is not required *)
validateConfigThrows_IgnoresProject(c) ==
    isServerMode(c) /\ ~NonEmpty(c.token)

(* validateConfig, lines 95-112 *)
validateConfigThrows(c) ==
    isServerMode(c) /\ (~NonEmpty(c.token) \/ ~NonEmpty(c.project))

(* mutation: noArchive is honoured in archive mode only *)
shouldCreateArchive_NoArchiveInArchiveModeOnly(c) ==
    NonEmpty(c.mode) /\ ~(c.noArchive /\ isArchiveMode(c))

(* shouldCreateArchive, lines 117-125 *)
shouldCreateArchive(c) == ~c.noArchive /\ NonEmpty(c.mode)

(* shouldUploadToServer, lines 130-132 *)
shouldUploadToServer(c) == isServerMode(c)

(* mutation: credentials are not required *)
shouldUploadToS3_NoCredentials(c, e) == isS3Mode(c) /\ NonEmpty(c.s3Bucket)

(* shouldUploadToS3, lines 137-144 *)
shouldUploadToS3(c, e) ==
    LET hasBucket == NonEmpty(c.s3Bucket)
        hasCredentials == NonEmpty(e.AWS_ACCESS_KEY_ID) \/ NonEmpty(e.AWS_PROFILE)
    IN  isS3Mode(c) /\ hasBucket /\ hasCredentials

(* this.config.server: no configuration getConfig returns has this member *)
ConfigServer(c) == Undefined

(* String.prototype.endsWith *)
EndsWith(str, suffix) ==
    /\ Len(str) >= Len(suffix)
    /\ SubSeq(str, Len(str) - Len(suffix) + 1, Len(str)) = suffix

(* str.slice(0, -n) *)
SliceOff(str, n) == IF Len(str) > n THEN SubSeq(str, 1, Len(str) - n) ELSE ""

(* getServerUrl, lines 79-82 *)
RemoveTrailingSlash(serverUrl) ==
    IF EndsWith(serverUrl, "/") THEN SliceOff(serverUrl, 1) ELSE serverUrl

(* getServerUrl, lines 84-87 *)
AddApi(serverUrl) ==
    IF ~EndsWith(serverUrl, "/api") THEN serverUrl \o "/api" ELSE serverUrl

(* mutation: the trailing slash is kept *)
getServerUrl_KeepsSlash(c) ==
    IF ~isServerMode(c) \/ c.mode = Undefined THEN Undefined
    ELSE AddApi(c.mode)

(* getServerUrl, lines 72-90 *)
getServerUrl(c) ==
    IF ~isServerMode(c) \/ c.mode = Undefined THEN Undefined
    ELSE AddApi(RemoveTrailingSlash(c.mode))

----------------------------------------------------------------------------
(* Part 4: IbutsuReporter *)

ServerUrl == "https://ibutsu.example.com"

(* the options and the environment the reporter is constructed with *)
ReporterOptions ==
    [mode : {Undefined, "archive", "s3", ServerUrl},
     token : {Undefined, "tok"},
     project : {"proj"},
     noArchive : BOOLEAN,
     s3Bucket : {Undefined, "bucket"}]

Environments ==
    [IBUTSU_MODE : {Undefined}, IBUTSU_TOKEN : {Undefined, "secret"},
     IBUTSU_PROJECT : {Undefined}, IBUTSU_NO_ARCHIVE : {Undefined},
     AWS_BUCKET : {Undefined}, AWS_ACCESS_KEY_ID : {"key"},
     AWS_PROFILE : {Undefined}]

NoEnv ==
    [IBUTSU_MODE |-> Undefined, IBUTSU_TOKEN |-> Undefined,
     IBUTSU_PROJECT |-> Undefined, IBUTSU_NO_ARCHIVE |-> Undefined,
     AWS_BUCKET |-> Undefined, AWS_ACCESS_KEY_ID |-> Undefined,
     AWS_PROFILE |-> Undefined]

NoConfig ==
    [mode |-> Undefined, token |-> Undefined, project |-> Undefined,
     noArchive |-> FALSE, s3Bucket |-> Undefined]

(* Playwright's attachments: contentType is <<type, subtype>>; a missing   *)
(* body or path is NoData                                                  *)
NoData == Buf(-1)
Attachment(name, contentType, body, path) ==
    [name |-> name, contentType |-> contentType, body |-> body, path |-> path]

(* what Playwright reports of a finished test: status, duration in         *)
(* milliseconds, attachments, and the numbers of errors and of stdout and  *)
(* stderr chunks                                                           *)
TestEnd(status, attachments, errors, stdout, stderr) ==
    [status |-> status, duration |-> 250, attachments |-> attachments,
     errors |-> errors, stdout |-> stdout, stderr |-> stderr]

TestEnds ==
    { TestEnd("passed", <<>>, 0, 0, 0),
      TestEnd("skipped", <<>>, 0, 0, 0),
      TestEnd("interrupted", <<>>, 0, 0, 0),
      TestEnd("failed", <<>>, 0, 0, 0),
      TestEnd("failed",
              <<Attachment("screenshot.png", <<"image", "png">>, Buf(3), NoData)>>,
              1, 0, 0),
      TestEnd("timedOut",
              <<Attachment("trace", <<"application", "zip">>, NoData, Str(12, 40))>>,
              0, 1, 0) }

(* mapStatus, lines 162-178 *)
mapStatus(status) ==
    CASE status = "passed" -> "passed"
      [] status \in {"failed", "timedOut"} -> "failed"
      [] status = "skipped" -> "skipped"
      [] status = "interrupted" -> "error"
      [] OTHER -> "error"

(* this._artifacts[filename] = data on the entries of the store: a name    *)
(* already held keeps its place                                            *)
RECURSIVE PutArtifact(_, _, _)
PutArtifact(arts, filename, data) ==
    IF arts = <<>> THEN <<[filename |-> filename, data |-> data]>>
    ELSE IF Head(arts).filename = filename
         THEN <<[filename |-> filename, data |-> data]>> \o Tail(arts)
         ELSE <<Head(arts)>> \o PutArtifact(Tail(arts), filename, data)

(* collectArtifacts, lines 209-228: what one attachment adds *)
CollectAttachment(arts, a) ==
    LET isImage == a.contentType[1] = "image"
        filename == IF a.name # "" THEN a.name ELSE "screenshot.png"
        a1 == IF isImage /\ a.body # NoData THEN PutArtifact(arts, filename, a.body)
              ELSE IF isImage /\ a.path # NoData
                   THEN PutArtifact(arts, filename, a.path)
                   ELSE arts
        a2 == IF a.name = "trace" /\ a.path # NoData
              THEN PutArtifact(a1, "trace.zip", a.path) ELSE a1
    IN  IF a.contentType[1] = "video" /\ a.path # NoData
        THEN PutArtifact(a2, "video.webm", a.path) ELSE a2

RECURSIVE CollectAttachments(_, _)
CollectAttachments(arts, as) ==
    IF as = <<>> THEN arts
    ELSE CollectAttachments(CollectAttachment(arts, Head(as)), Tail(as))

(* collectArtifacts, lines 203-246: the logs are text of the given length *)
collectArtifacts(arts, t) ==
    LET a1 == CollectAttachments(arts, t.attachments)
        a2 == IF t.errors > 0 THEN PutArtifact(a1, "error.log", Str(t.errors, NoFile))
              ELSE a1
        a3 == IF t.stdout > 0 THEN PutArtifact(a2, "stdout.log", Str(t.stdout, NoFile))
              ELSE a2
    IN  IF t.stderr > 0 THEN PutArtifact(a3, "stderr.log", Str(t.stderr, NoFile))
        ELSE a3

(* TestRun.startTimer / TestResult.startTimer at instant t *)
startTimer(r, t) == [r EXCEPT !.start_unix_time = t, !.start_time = <<t>>]

(* mutation: the timer is not stopped *)
stopTimer_Skipped(r, t) == r

(* TestRun.stopTimer at instant t *)
stopTimer(r, t) ==
    IF r.start_unix_time > 0
    THEN [r EXCEPT !.duration = t - r.start_unix_time]
    ELSE r

(* mutation: an error is not counted *)
updateSummary_MissesErrors(summary, status) ==
    LET s == [summary EXCEPT !.tests = @ + 1, !.collected = @ + 1]
    IN  CASE status = "failed" -> [s EXCEPT !.failures = @ + 1]
          [] status = "skipped" -> [s EXCEPT !.skips = @ + 1]
          [] OTHER -> s

(* mutation: a skipped test is also counted as not run *)
updateSummary_CountsNotRun(summary, status) ==
    LET s == [summary EXCEPT !.tests = @ + 1, !.collected = @ + 1]
    IN  CASE status = "failed" -> [s EXCEPT !.failures = @ + 1]
          [] status = "error" -> [s EXCEPT !.errors = @ + 1]
          [] status = "skipped" -> [s EXCEPT !.skips = @ + 1, !.not_run = @ + 1]
          [] OTHER -> s

(* updateSummary, lines 251-274 *)
updateSummary(summary, status) ==
    LET s == [summary EXCEPT !.tests = @ + 1, !.collected = @ + 1]
    IN  CASE status = "failed" -> [s EXCEPT !.failures = @ + 1]
          [] status = "error" -> [s EXCEPT !.errors = @ + 1]
          [] status = "skipped" -> [s EXCEPT !.skips = @ + 1]
          [] status = "xfailed" -> [s EXCEPT !.xfailures = @ + 1]
          [] status = "xpassed" -> [s EXCEPT !.xpasses = @ + 1]
          [] OTHER -> s

InitReporter ==
    /\ rpc = "new"
    /\ enabled = TRUE
    /\ config = NoConfig
    /\ env = NoEnv
    /\ thisRun = NewTestRun(None)
    /\ thisResults = <<>>
    /\ now = 1000
    /\ events = <<>>
    /\ sinks = <<>>
    /\ stoppedAt = <<>>

(* constructor, lines 35-44 *)
Construct(options, e) ==
    /\ rpc = "new"
    /\ env' = e
    /\ IF getConfigThrows(options) \/ validateConfigThrows(getConfig(options, e))
       THEN enabled' = FALSE /\ config' = options
       ELSE enabled' = TRUE /\ config' = getConfig(options, e)
    /\ rpc' = "constructed"
    /\ UNCHANGED <<thisRun, thisResults, now, events, sinks, stoppedAt>>
    /\ UNCHANGED archiverVars

(* onBegin, lines 49-73 *)
OnBegin ==
    /\ rpc = "constructed"
    /\ rpc' = "begun"
    /\ IF enabled
       THEN /\ thisRun' = startTimer(NewTestRun(RunId), now)
            /\ thisResults' = <<>>
       ELSE UNCHANGED <<thisRun, thisResults>>
    /\ UNCHANGED <<enabled, config, env, now, events, sinks, stoppedAt>>
    /\ UNCHANGED archiverVars

(* onBegin, lines 49-73, called again on the reporter: a new Run, and      *)
(* results.clear(); the history of events starts again with the Run        *)
OnBeginAgain ==
    /\ rpc = "begun"
    /\ rpc' = "begunAgain"
    /\ IF enabled
       THEN /\ thisRun' = startTimer(NewTestRun(RunIds[2]), now)
            /\ thisResults' = <<>>
       ELSE UNCHANGED <<thisRun, thisResults>>
    /\ events' = <<>>
    /\ UNCHANGED <<enabled, config, env, now, sinks, stoppedAt>>
    /\ UNCHANGED archiverVars

(* mutation: the Results are keyed by test_id *)
ResultKey_TestId(r) == r.test_id

(* onTestEnd, line 112: the key the Result is stored under *)
ResultKey(r) == r.id

(* Map.prototype.set: the value replaces the one stored under the key, or  *)
(* is added after the others                                               *)
MapSet(map, key, value) ==
    IF \E k \in 1..Len(map) : ResultKey(map[k]) = key
    THEN [k \in 1..Len(map) |-> IF ResultKey(map[k]) = key THEN value ELSE map[k]]
    ELSE Append(map, value)

(* onTestEnd, lines 78-113, for a test that started at `now` and took      *)
(* t.duration milliseconds                                                 *)
OnTestEnd(t) ==
    /\ rpc \in {"begun", "begunAgain"}
    /\ Len(events) < MaxTests
    /\ LET started == now
           ended == now + t.duration
           ibutsuStatus == mapStatus(t.status)
           created == NewTestResult(ResultIds[Len(events) + 1], "test", ibutsuStatus)
           timed == [startTimer(created, ended) EXCEPT
                         !.duration = t.duration, !.start_time = <<started>>]
           testResult ==
               IF t.status \in {"failed", "timedOut"}
               THEN [timed EXCEPT !.artifacts = collectArtifacts(@, t)]
               ELSE timed
       IN  /\ now' = ended
           /\ events' = Append(events, [status |-> t.status, startTime |-> started,
                                        duration |-> t.duration])
           /\ IF enabled
              THEN /\ thisRun' = [thisRun EXCEPT
                                      !.summary = updateSummary(@, ibutsuStatus)]
                   /\ thisResults' = MapSet(thisResults, ResultKey(testResult),
                                            testResult)
              ELSE UNCHANGED <<thisRun, thisResults>>
    /\ UNCHANGED <<rpc, enabled, config, env, sinks, stoppedAt>>
    /\ UNCHANGED archiverVars

(* onEnd, lines 118-130: the timer is stopped and the Results are listed *)
OnEnd ==
    /\ rpc = "begun"
    /\ IF enabled
       THEN /\ thisRun' = stopTimer(thisRun, now)
            /\ stoppedAt' = <<now>>
            /\ rpc' = "atArchive"
       ELSE /\ rpc' = "done"
            /\ UNCHANGED <<thisRun, stoppedAt>>
    /\ UNCHANGED <<enabled, config, env, thisResults, now, events, sinks>>
    /\ UNCHANGED archiverVars

(* what a sink is handed *)
Observed(sink, outcome) ==
    [sink |-> sink, outcome |-> outcome, run |-> RunToDict(thisRun),
     results |-> [k \in 1..Len(thisResults) |-> ResultToDict(thisResults[k])]]

(* onEnd, lines 134-136, and createLocalArchive, lines 279-282 *)
CreateLocalArchive ==
    /\ rpc = "atArchive"
    /\ IF shouldCreateArchive(config)
       THEN /\ CreateArchive(thisRun, thisResults)
            /\ sinks' = Append(sinks, Observed("createArchive", "called"))
            /\ rpc' = "inArchive"
       ELSE /\ rpc' = "atServer"
            /\ UNCHANGED sinks
            /\ UNCHANGED archiverVars
    /\ UNCHANGED <<enabled, config, env, thisRun, thisResults, now, events,
                   stoppedAt>>

(* mutation: the error of createArchive leaves onEnd *)
CreateLocalArchiveCatch_Escapes == "rejected"

(* createLocalArchive, lines 284-286: the error is logged and onEnd goes   *)
(* on to the server upload                                                 *)
CreateLocalArchiveCatch == "atServer"

(* createLocalArchive, lines 282-286: createArchive has resolved, or has   *)
(* rejected and the error is logged                                        *)
CreateLocalArchiveReturns ==
    /\ rpc = "inArchive"
    /\ apc \in {"returned", "rejected"}
    /\ rpc' = IF apc = "returned" THEN "atServer" ELSE CreateLocalArchiveCatch
    /\ UNCHANGED <<enabled, config, env, thisRun, thisResults, now, events,
                   sinks, stoppedAt>>
    /\ UNCHANGED archiverVars

(* onEnd, lines 139-141, and uploadToServer, lines 292-320 *)
UploadToServer ==
    /\ rpc = "atServer"
    /\ rpc' = "atS3"
    /\ sinks' =
           IF ~shouldUploadToServer(config) THEN sinks
           ELSE IF ~IsTruthy(ConfigServer(config)) \/ ~IsTruthy(config.token)
                THEN Append(sinks, Observed("uploadToServer", "not configured"))
                ELSE Append(Append(sinks, Observed("uploadToServer", "called")),
                            Observed("sendToServer", "called"))
    /\ UNCHANGED <<enabled, config, env, thisRun, thisResults, now, events,
                   stoppedAt>>
    /\ UNCHANGED archiverVars

----------------------------------------------------------------------------
(* Part 5: the configuration functions called directly *)

(* the values of IBUTSU_MODE / options.mode *)
ConfigModes ==
    {Undefined, "", "archive", "s3", "archive/", "/", "/api", "api",
     "http://h", "http://h/", "http://h//", "http://h/api", "http://h/api/",
     "http://h/myapi", "http://h/api/v1"}

Configs ==
    [mode : ConfigModes,
     token : {Undefined, "", "secret"},
     project : {Undefined, "", "proj"},
     noArchive : BOOLEAN,
     s3Bucket : {Undefined, "", "bucket"}]

ConfigEnvs ==
    [IBUTSU_MODE : {Undefined}, IBUTSU_TOKEN : {Undefined},
     IBUTSU_PROJECT : {Undefined}, IBUTSU_NO_ARCHIVE : {Undefined},
     AWS_BUCKET : {Undefined}, AWS_ACCESS_KEY_ID : {Undefined, "", "key"},
     AWS_PROFILE : {Undefined, "", "default"}]

(* a call of function fn with config c in environment e; one function is  *)
(* called in a behaviour, on arguments of any value                        *)
ConfigCall(fn, c, e) ==
    [fn |-> fn, config |-> c, env |-> e, again |-> FALSE,
     threw |-> FALSE, flag |-> FALSE, url |-> Undefined]

InitConfig == cfgCall = ConfigCall("none", NoConfig, NoEnv)

ValidateConfig(c) ==
    /\ cfgCall.fn = "none"
    /\ cfgCall' = [ConfigCall("validateConfig", c, NoEnv) EXCEPT
                       !.threw = validateConfigThrows(c)]

ShouldCreateArchive(c) ==
    /\ cfgCall.fn = "none"
    /\ cfgCall' = [ConfigCall("shouldCreateArchive", c, NoEnv) EXCEPT
                       !.flag = shouldCreateArchive(c)]

ShouldUploadToServer(c) ==
    /\ cfgCall.fn = "none"
    /\ cfgCall' = [ConfigCall("shouldUploadToServer", c, NoEnv) EXCEPT
                       !.flag = shouldUploadToServer(c)]

ShouldUploadToS3(c, e) ==
    /\ cfgCall.fn = "none"
    /\ cfgCall' = [ConfigCall("shouldUploadToS3", c, e) EXCEPT
                       !.flag = shouldUploadToS3(c, e)]

GetServerUrl(c) ==
    /\ cfgCall.fn = "none"
    /\ cfgCall' = [ConfigCall("getServerUrl", c, NoEnv) EXCEPT
                       !.url = getServerUrl(c)]

(* getServerUrl on a configuration whose mode is the URL it just returned *)
GetServerUrlAgain ==
    /\ cfgCall.fn = "getServerUrl"
    /\ ~cfgCall.again
    /\ cfgCall.url # Undefined
    /\ LET c == [cfgCall.config EXCEPT !.mode = cfgCall.url]
       IN  cfgCall' = [ConfigCall("getServerUrl", c, NoEnv) EXCEPT
                           !.again = TRUE, !.url = getServerUrl(c)]

----------------------------------------------------------------------------
(* Part 6: S3Uploader (src/src/s3-uploader.ts) and isValidUUID             *)
(* (src/src/types.ts).  The directory scanned is '.', so that the path of  *)
(* a file and its S3 key are both the file's name.                         *)

HexDigits ==
    {"0", "1", "2", "3", "4", "5", "6", "7", "8", "9",
     "a", "b", "c", "d", "e", "f", "A", "B", "C", "D", "E", "F"}

CharAt(str, i) == SubSeq(str, i, i)

(* mutation: only lower-case hex digits are accepted *)
isValidUUID_LowerOnly(uuid) ==
    /\ Len(uuid) = 36
    /\ \A i \in 1..36 :
           IF i \in {9, 14, 19, 24}
           THEN CharAt(uuid, i) = "-"
           ELSE CharAt(uuid, i) \in
                    {"0", "1", "2", "3", "4", "5", "6", "7", "8", "9",
                     "a", "b", "c", "d", "e", "f"}

(* isValidUUID, types.ts lines 225-228:                                    *)
(* /^[0-9a-fA-F]{8}-[0-9a-fA-F]{4}-[0-9a-fA-F]{4}-[0-9a-fA-F]{4}-          *)
(*   [0-9a-fA-F]{12}$/                                                     *)
isValidUUID(uuid) ==
    /\ Len(uuid) = 36
    /\ \A i \in 1..36 :
           IF i \in {9, 14, 19, 24}
           THEN CharAt(uuid, i) = "-"
           ELSE CharAt(uuid, i) \in HexDigits

(* mutation: every name ending in .tar.gz is taken *)
IsUuidTarGz_AnyTarGz(file) == EndsWith(file, ".tar.gz")

(* findUuidTarGzFiles, lines 39-45: the filter *)
IsUuidTarGz(file) ==
    IF ~EndsWith(file, ".tar.gz") THEN FALSE
    ELSE isValidUUID(SliceOff(file, 7))

(* Array.prototype.filter on the names readdir returned *)
RECURSIVE FilterNames(_)
FilterNames(names) ==
    IF names = <<>> THEN <<>>
    ELSE IF IsUuidTarGz(Head(names))
         THEN <<Head(names)>> \o FilterNames(Tail(names))
         ELSE FilterNames(Tail(names))

(* s3://bucket/key *)
S3Url(bucket, key) == "s3://" \o bucket \o "/" \o key

(* a || b on strings *)
OrElse(a, b) == IF IsTruthy(a) THEN a ELSE b

(* the names a directory may hold, in the order readdir lists them *)
DirNames ==
    <<"123e4567-e89b-12d3-a456-426614174000.tgz",
      "123e4567-e89b-12d3-a456-426614174000.tar.gz",
      "x123e4567-e89b-12d3-a456-426614174000.tar.gz",
      "123e4567-e89b-12d3-a456-42661417400g.tar.gz",
      "ABCDEF01-2345-6789-abcd-ef0123456789.tar.gz",
      "123e4567-e89b-12d3-a456-426614174000.tar.gz.bak",
      "123e45678-e9b-12d3-a456-426614174000.tar.gz",
      ".tar.gz",
      "run.json">>

(* what an entry may be: a regular file of some size, or a directory *)
EntryKinds ==
    {[isFile |-> TRUE, size |-> 5], [isFile |-> TRUE, size |-> 0],
     [isFile |-> FALSE, size |-> 0]}
EntryKindsOf(name) ==
    IF name = DirNames[2] THEN EntryKinds ELSE {[isFile |-> TRUE, size |-> 5]}

(* the directories of n entries whose names are among DirNames[from..] *)
RECURSIVE Directories(_, _)
Directories(n, from) ==
    IF n = 0 THEN {<<>>}
    ELSE UNION { { <<[name |-> DirNames[k], isFile |-> kind.isFile,
                      size |-> kind.size]>> \o rest :
                       kind \in EntryKindsOf(DirNames[k]),
                       rest \in Directories(n - 1, k + 1) } :
                 k \in from..Len(DirNames) }

(* the sizes of the objects the bucket holds at the start *)
RemoteSizes == {5, 7}

Names(directory) == [k \in 1..Len(directory) |-> directory[k].name]
Range(seq) == {seq[k] : k \in 1..Len(seq)}

(* the buckets that hold an object for some of the names that match *)
Buckets(directory) ==
    UNION { [keys -> RemoteSizes] :
                keys \in SUBSET Range(FilterNames(Names(directory))) }

S3Inputs ==
    UNION { { <<directory, objects>> : objects \in Buckets(directory) } :
            directory \in UNION { Directories(n, 1) : n \in 0..MaxS3Files } }

Entry(name) == s3dir[CHOOSE k \in 1..Len(s3dir) : s3dir[k].name = name]
CurrentFile == s3files[s3i]

(* what an operation of the file system or of S3 may do: succeed when it   *)
(* can, fail when it cannot or when the environment fails it               *)
S3Outcomes(can) ==
    { ok \in BOOLEAN : IF ok THEN can ELSE ~can \/ s3faults > 0 }
S3FaultsAfter(ok, can) == IF ~ok /\ can THEN s3faults - 1 ELSE s3faults

S3Call(operation, key, outcome) ==
    [run |-> s3run, op |-> operation, key |-> key, outcome |-> outcome]

InitS3 ==
    /\ s3pc = "idle"
    /\ s3bucket = ""
    /\ s3dir = <<>>
    /\ s3store = [k \in {} |-> 0]
    /\ s3files = <<>>
    /\ s3i = 0
    /\ s3urls = <<>>
    /\ s3errors = <<>>
    /\ s3calls = <<>>
    /\ s3rets = <<>>
    /\ s3faults = MaxS3Faults
    /\ s3run = 0

(* uploadArchives, lines 144-152: the loop is over *)
S3Return(uploadedUrls, errors) ==
    /\ s3pc' = "returned"
    /\ s3rets' = Append(s3rets, [urls |-> uploadedUrls, errors |-> errors])
    /\ s3urls' = uploadedUrls
    /\ s3errors' = errors
    /\ UNCHANGED s3i

(* mutation: the first failure ends the batch *)
S3NextFile_AbortsOnFailure(uploadedUrls, errors) ==
    IF s3i < Len(s3files) /\ errors = s3errors
    THEN /\ s3pc' = "stat"
         /\ s3i' = s3i + 1
         /\ s3urls' = uploadedUrls
         /\ s3errors' = errors
         /\ UNCHANGED s3rets
    ELSE S3Return(uploadedUrls, errors)

(* uploadArchives, lines 132-142: on to the next file, if any *)
S3NextFile(uploadedUrls, errors) ==
    IF s3i < Len(s3files)
    THEN /\ s3pc' = "stat"
         /\ s3i' = s3i + 1
         /\ s3urls' = uploadedUrls
         /\ s3errors' = errors
         /\ UNCHANGED s3rets
    ELSE S3Return(uploadedUrls, errors)

(* uploadArchives, lines 138-141: uploadFile threw *)
S3FileFailed == S3NextFile(s3urls, Append(s3errors, CurrentFile))

(* uploadArchives, lines 120-130, with findUuidTarGzFiles, lines 35-51 *)
S3Scan ==
    \E ok \in S3Outcomes(TRUE) :
        LET found == IF ok THEN FilterNames(Names(s3dir')) ELSE <<>>
        IN  /\ s3faults' = S3FaultsAfter(ok, TRUE)
            /\ s3run' = s3run + 1
            /\ s3files' = found
            /\ IF found = <<>>
               THEN /\ s3pc' = "returned"
                    /\ s3rets' = Append(s3rets, [urls |-> <<>>, errors |-> <<>>])
                    /\ s3i' = 0
               ELSE /\ s3pc' = "stat"
                    /\ s3i' = 1
                    /\ UNCHANGED s3rets
            /\ s3urls' = <<>>
            /\ s3errors' = <<>>
            /\ s3calls' = Append(s3calls,
                   [run |-> s3run + 1, op |-> "readdir", key |-> ".",
                    outcome |-> IF ok THEN "ok" ELSE "error"])

(* uploadToS3, lines 159-171: new S3Uploader, lines 13-30, then            *)
(* uploadArchives on a directory and a bucket in some state                *)
UploadToS3Directory(directory, objects, bucketName, e) ==
    /\ s3pc = "idle"
    /\ s3run = 0
    /\ s3dir' = directory
    /\ s3store' = objects
    /\ s3bucket' = OrElse(bucketName, OrElse(e.AWS_BUCKET, ""))
    /\ IF s3bucket' = ""
       THEN /\ s3pc' = "rejected"
            /\ UNCHANGED <<s3files, s3i, s3urls, s3errors, s3calls, s3rets,
                           s3faults, s3run>>
       ELSE S3Scan

(* uploadArchives called once more on the same uploader and directory *)
UploadArchivesAgain ==
    /\ s3pc = "returned"
    /\ s3run < MaxS3Runs
    /\ UNCHANGED <<s3dir, s3store, s3bucket>>
    /\ S3Scan

(* uploadFile, lines 80-84: stat *)
S3Stat ==
    /\ s3pc = "stat"
    /\ \E ok \in S3Outcomes(TRUE) :
         /\ s3faults' = S3FaultsAfter(ok, TRUE)
         /\ s3calls' = Append(s3calls, S3Call("stat", CurrentFile,
                                   IF ok THEN "ok" ELSE "error"))
         /\ IF ok /\ Entry(CurrentFile).isFile
            THEN /\ s3pc' = "head"
                 /\ UNCHANGED <<s3i, s3urls, s3errors, s3rets>>
            ELSE S3FileFailed
    /\ UNCHANGED <<s3dir, s3store, s3bucket, s3files, s3run>>

(* mutation: an error of the existence check counts as `exists` *)
fileExistsInS3_ErrorMeansExists(response, localFileSize) ==
    IF response.ok THEN response.ContentLength = localFileSize ELSE TRUE

(* mutation: the existence check never finds the object *)
fileExistsInS3_NeverExists(response, localFileSize) == FALSE

(* fileExistsInS3, lines 56-73 *)
fileExistsInS3(response, localFileSize) ==
    IF response.ok THEN response.ContentLength = localFileSize ELSE FALSE

(* what HeadObject may answer for a key *)
HeadResponses(key) ==
    (IF key \in DOMAIN s3store
     THEN {[ok |-> TRUE, ContentLength |-> s3store[key], name |-> "response"]}
     ELSE {[ok |-> FALSE, ContentLength |-> 0, name |-> "NotFound"]})
    \cup (IF s3faults > 0
          THEN {[ok |-> FALSE, ContentLength |-> 0, name |-> "error"]}
          ELSE {})

(* uploadFile, lines 86-94: the existence check *)
S3Head ==
    /\ s3pc = "head"
    /\ \E response \in HeadResponses(CurrentFile) :
         /\ s3faults' = IF response.name = "error" THEN s3faults - 1 ELSE s3faults
         /\ s3calls' = Append(s3calls, S3Call("head", CurrentFile,
                IF response.ok
                THEN IF response.ContentLength = Entry(CurrentFile).size
                     THEN "same size" ELSE "other size"
                ELSE response.name))
         /\ IF fileExistsInS3(response, Entry(CurrentFile).size)
            THEN S3NextFile(s3urls, s3errors)
            ELSE /\ s3pc' = "read"
                 /\ UNCHANGED <<s3i, s3urls, s3errors, s3rets>>
    /\ UNCHANGED <<s3dir, s3store, s3bucket, s3files, s3run>>

(* uploadFile, line 99: readFile *)
S3ReadFile ==
    /\ s3pc = "read"
    /\ \E ok \in S3Outcomes(TRUE) :
         /\ s3faults' = S3FaultsAfter(ok, TRUE)
         /\ s3calls' = Append(s3calls, S3Call("read", CurrentFile,
                                   IF ok THEN "ok" ELSE "error"))
         /\ IF ok
            THEN /\ s3pc' = "put"
                 /\ UNCHANGED <<s3i, s3urls, s3errors, s3rets>>
            ELSE S3FileFailed
    /\ UNCHANGED <<s3dir, s3store, s3bucket, s3files, s3run>>

(* uploadFile, lines 100-110: PutObject *)
S3Put ==
    /\ s3pc = "put"
    /\ \E ok \in S3Outcomes(TRUE) :
         /\ s3faults' = S3FaultsAfter(ok, TRUE)
         /\ s3calls' = Append(s3calls, S3Call("put", CurrentFile,
                                   IF ok THEN "ok" ELSE "error"))
         /\ IF ok
            THEN /\ s3store' = [k \in DOMAIN s3store \cup {CurrentFile} |->
                                   IF k = CurrentFile
                                   THEN Entry(CurrentFile).size ELSE s3store[k]]
                 /\ S3NextFile(Append(s3urls, S3Url(s3bucket, CurrentFile)),
                               s3errors)
            ELSE /\ UNCHANGED s3store
                 /\ S3FileFailed
    /\ UNCHANGED <<s3dir, s3bucket, s3files, s3run>>

----------------------------------------------------------------------------
(* The object-store sink of the reporter (src/src/reporter.ts) *)

(* fs.promises.readdir('.'): the entries of the output directory, which   *)
(* holds the staging parent while it exists and the archives written       *)
RECURSIVE ArchiveEntries(_)
ArchiveEntries(paths) ==
    IF paths = {} THEN <<>>
    ELSE LET p == CHOOSE q \in paths : TRUE
         IN  <<[name |-> Basename(p), isFile |-> TRUE, size |-> 5]>>
                 \o ArchiveEntries(paths \ {p})

(* mutation: the directory is listed as it was before the archive sink *)
OutputDirectory_BeforeArchive == <<>>

OutputDirectory ==
    (IF \E d \in dirs \cup DOMAIN files : Len(d) >= 1 /\ d[1] = ".ibutsu-temp"
     THEN <<[name |-> ".ibutsu-temp", isFile |-> FALSE, size |-> 0]>>
     ELSE <<>>)
    \o ArchiveEntries({p \in DOMAIN tarballs : Dirname(p) = OutputDir})

(* uploadToS3, lines 338-340: the error is logged *)
UploadToS3Catch == "done"

(* onEnd, lines 144-146, and uploadToS3, lines 325-330: uploadToS3('.',    *)
(* s3Bucket, s3Region) on the output directory as the archive sink left it *)
(* and a bucket in some state                                              *)
UploadToS3 ==
    /\ rpc = "atS3"
    /\ IF shouldUploadToS3(config, env)
       THEN /\ \E objects \in Buckets(OutputDirectory) :
                    UploadToS3Directory(OutputDirectory, objects,
                                        config.s3Bucket, env)
            /\ sinks' = Append(sinks, Observed("uploadToS3", "called"))
            /\ rpc' = "inS3"
       ELSE /\ rpc' = "done"
            /\ UNCHANGED sinks
            /\ UNCHANGED s3Vars
    /\ UNCHANGED <<enabled, config, env, thisRun, thisResults, now, events,
                   stoppedAt>>
    /\ UNCHANGED archiverVars

(* uploadToS3, lines 330-340: the upload has resolved and its URLs are     *)
(* logged, or it has rejected and the error is logged; onEnd resolves      *)
UploadToS3Returns ==
    /\ rpc = "inS3"
    /\ s3pc \in {"returned", "rejected"}
    /\ rpc' = IF s3pc = "returned" THEN "done" ELSE UploadToS3Catch
    /\ UNCHANGED <<enabled, config, env, thisRun, thisResults, now, events,
                   sinks, stoppedAt>>
    /\ UNCHANGED archiverVars
    /\ UNCHANGED s3Vars

----------------------------------------------------------------------------
(* Part 7: the constructors and isValidUUID of src/src/types.ts *)

(* an optional object: <<>> when the member is undefined, <<x>> otherwise  *)
OrDefault(opt, d) == IF opt = <<>> THEN d ELSE opt[1]

RECURSIVE Rep(_, _)
Rep(c, n) == IF n = 0 THEN "" ELSE c \o Rep(c, n - 1)

(* uuidv4() of the uuid package: 32 lower-case hex digits in groups of     *)
(* 8-4-4-4-12, the third group starting with 4 and the fourth with one of  *)
(* 8, 9, a, b; which one it returns is not determined                      *)
uuidv4 ==
    { Rep(d, 8) \o "-" \o Rep(d, 4) \o "-4" \o Rep(d, 3) \o "-" \o v
          \o Rep(d, 3) \o "-" \o Rep(d, 12) :
      d \in {"0", "7", "c", "f"}, v \in {"8", "b"} }
    \cup {RunIds[k] : k \in 1..Len(RunIds)}

(* mutation: the metadata given by the caller is not kept *)
TestRun_DropsMetadata(c, e, fresh) ==
    LET withJenkins ==
            IF NonEmpty(e.JOB_NAME) /\ NonEmpty(e.BUILD_NUMBER)
            THEN Assign(EmptyMap, "jenkins",
                        [job_name |-> e.JOB_NAME, build_number |-> e.BUILD_NUMBER,
                         build_url |-> e.BUILD_URL])
            ELSE EmptyMap
        withEnvId ==
            IF NonEmpty(e.IBUTSU_ENV_ID)
            THEN Assign(withJenkins, "env_id", e.IBUTSU_ENV_ID)
            ELSE withJenkins
    IN  [id |-> Coalesce(c.id, fresh),
         env |-> Coalesce(c.env, e.IBUTSU_ENV_ID),
         metadata |-> withEnvId]

(* new TestRun(config), lines 92-131, when uuidv4() would give `fresh`:    *)
(* the id, env and metadata of the Run                                     *)
TestRun(c, e, fresh) ==
    LET given == OrDefault(c.metadata, EmptyMap)
        withJenkins ==
            IF NonEmpty(e.JOB_NAME) /\ NonEmpty(e.BUILD_NUMBER)
            THEN Assign(given, "jenkins",
                        [job_name |-> e.JOB_NAME, build_number |-> e.BUILD_NUMBER,
                         build_url |-> e.BUILD_URL])
            ELSE given
        withEnvId ==
            IF NonEmpty(e.IBUTSU_ENV_ID)
            THEN Assign(withJenkins, "env_id", e.IBUTSU_ENV_ID)
            ELSE withJenkins
    IN  [id |-> Coalesce(c.id, fresh),
         env |-> Coalesce(c.env, e.IBUTSU_ENV_ID),
         metadata |-> withEnvId]

(* new TestResult(config), lines 162-170: the id, test_id, result and      *)
(* metadata of the Result                                                  *)
TestResult(c, fresh) ==
    [id |-> Coalesce(c.id, fresh),
     test_id |-> c.test_id,
     result |-> Coalesce(c.result, "passed"),
     metadata |-> OrDefault(c.metadata, EmptyMap)]

(* the metadata a caller may give: none, or a value under some of the keys *)
MetadataKeys == {"team", "jenkins", "env_id"}
Metadatas ==
    {<<>>} \cup { <<m>> : m \in UNION { [keys -> {"mine"}] :
                                          keys \in SUBSET MetadataKeys } }

RunConfigs ==
    [id : {Undefined, "my-run"}, env : {Undefined, "prod"}, metadata : Metadatas]

ResultConfigs ==
    [id : {Undefined, "my-result"}, test_id : {"test"},
     result : {Undefined, "failed"}, metadata : Metadatas]

TypesEnvs ==
    [JOB_NAME : {Undefined, "", "job"}, BUILD_NUMBER : {Undefined, "", "7"},
     BUILD_URL : {Undefined, "http://ci/job/7"},
     IBUTSU_ENV_ID : {Undefined, "", "stage"}]

(* the strings isValidUUID is called with *)
UuidStrings ==
    uuidv4 \cup
    {"123e4567-e89b-12d3-a456-426614174000",
     "ABCDEF01-2345-6789-abcd-ef0123456789",
     "123E4567-E89B-12D3-A456-426614174000",
     "123e4567-e89b-12d3-a456-42661417400",
     "123e4567-e89b-12d3-a456",
     "",
     "not-a-uuid",
     "123e4567-e89b-12d3-a456-42661417400g",
     "g23e4567-e89b-12d3-a456-426614174000",
     "123e4567-e89b-12d3-a456-4266141740000",
     "0123e4567-e89b-12d3-a456-426614174000",
     "123e4567e89b12d3a456426614174000",
     "123e4567-e89b-12d3-a456426614174000-",
     "123e45678-e9b-12d3-a456-426614174000",
     "123e4567-e89b-12d3-a456-426614174000.tar.gz",
     "{123e4567-e89b-12d3-a456-426614174000}",
     "123e4567_e89b_12d3_a456_426614174000",
     "------------------------------------"}

InitTypes == tcall = [fn |-> "none"]

(* new TestRun(config) in environment e *)
ConstructTestRun(c, e, fresh) ==
    /\ tcall.fn = "none"
    /\ tcall' = [fn |-> "TestRun", config |-> c, env |-> e,
                 made |-> TestRun(c, e, fresh)]

(* new TestResult(config) *)
ConstructTestResult(c, fresh) ==
    /\ tcall.fn = "none"
    /\ tcall' = [fn |-> "TestResult", config |-> c, made |-> TestResult(c, fresh)]

(* isValidUUID(uuid) *)
IsValidUUID(uuid) ==
    /\ tcall.fn = "none"
    /\ tcall' = [fn |-> "isValidUUID", uuid |-> uuid, valid |-> isValidUUID(uuid)]

----------------------------------------------------------------------------
(* Specifications *)

(* the parts a specification does not exercise stay as constructed *)
Init ==
    InitSender /\ InitStore /\ InitArchiver /\ InitReporter /\ InitConfig
        /\ InitS3 /\ InitTypes

SenderStep ==
    UNCHANGED <<storeVars, archiverVars, reporterVars, configVars, s3Vars,
                typesVars>>
StoreStep ==
    UNCHANGED <<senderVars, archiverVars, reporterVars, configVars, s3Vars,
                typesVars>>
ArchiverStep ==
    UNCHANGED <<senderVars, storeVars, reporterVars, configVars, s3Vars,
                typesVars>>
ReporterStep ==
    UNCHANGED <<senderVars, storeVars, configVars, s3Vars, typesVars>>
ReporterS3Step == UNCHANGED <<senderVars, storeVars, configVars, typesVars>>
ConfigStep ==
    UNCHANGED <<senderVars, storeVars, archiverVars, reporterVars, s3Vars,
                typesVars>>
S3Step ==
    UNCHANGED <<senderVars, storeVars, archiverVars, reporterVars, configVars,
                typesVars>>
TypesStep ==
    UNCHANGED <<senderVars, storeVars, archiverVars, reporterVars, configVars,
                s3Vars>>

Next ==
    \/ \E s \in Sessions(SessionContents) : SendData(s[1], s[2]) /\ SenderStep
    \/ \E v \in {Obj, Undefined} : ApiResolves(v) /\ SenderStep
    \/ \E e \in SessionErrors : ApiRejects(e) /\ SenderStep
    \/ Sleep /\ SenderStep
    \/ UploadArtifact /\ SenderStep
    \/ UploadArtifactsReturns /\ SenderStep
    \/ SendDataNextResult /\ SenderStep
    \/ SendDataFinalUpdate /\ SenderStep
    \/ SendDataReturns /\ SenderStep

Spec == Init /\ [][Next]_vars

NextOps ==
    \/ \E r \in Runs({}) : AddOrUpdateRun(r) /\ SenderStep
    \/ \E res \in {[id |-> ResultIds[1], artifacts |-> <<>>]} : AddResult(res)
       /\ SenderStep
    \/ \E v \in {Obj, Undefined} : ApiResolves(v) /\ SenderStep
    \/ \E e \in OpErrors : ApiRejects(e) /\ SenderStep
    \/ Sleep /\ SenderStep

SpecOps == Init /\ [][NextOps]_vars

(* what each sendData of a reused sender is called with: a Run and at     *)
(* most one Result, without artifacts                                      *)
ReuseSessions == { s \in Sessions({}) : Len(s[2]) <= 1 }

(* one sender used for several sendData calls in turn *)
NextReuse ==
    \/ \E s \in ReuseSessions : SendData(s[1], s[2]) /\ SenderStep
    \/ \E s \in ReuseSessions : SendDataAgain(s[1], s[2]) /\ SenderStep
    \/ \E v \in {Obj, Undefined} : ApiResolves(v) /\ SenderStep
    \/ \E e \in SessionErrors : ApiRejects(e) /\ SenderStep
    \/ Sleep /\ SenderStep
    \/ UploadArtifactsReturns /\ SenderStep
    \/ SendDataNextResult /\ SenderStep
    \/ SendDataFinalUpdate /\ SenderStep
    \/ SendDataReturns /\ SenderStep

SpecReuse == Init /\ [][NextReuse]_vars

NextUpload ==
    \/ \E a \in ArtifactMaps(OpContents, MaxUploads), isRun \in BOOLEAN :
           UploadArtifacts(IF isRun THEN RunId ELSE ResultIds[1], a, isRun)
           /\ SenderStep
    \/ \E v \in {Obj} : ApiResolves(v) /\ SenderStep
    \/ \E e \in SessionErrors : ApiRejects(e) /\ SenderStep
    \/ Sleep /\ SenderStep
    \/ UploadArtifact /\ SenderStep
    \/ UploadArtifactsReturns /\ SenderStep

SpecUpload == Init /\ [][NextUpload]_vars

NextStore ==
    \/ (\E e \in Entities, n \in StoreNames, d \in StoreContents :
           AddArtifact(e, n, d)) /\ StoreStep
    \/ (\E e \in Entities : GetArtifacts(e)) /\ StoreStep
    \/ (\E s \in 1..MaxSnapshots, n \in StoreNames, d \in CallerContents :
           CallerAssigns(s, n, d)) /\ StoreStep
    \/ (\E s \in 1..MaxSnapshots, n \in StoreNames : CallerDeletes(s, n))
       /\ StoreStep

SpecStore == Init /\ [][NextStore]_vars

NextArchive ==
    \/ (apc = "idle" /\ \E s \in ArchiveInputs : CreateArchive(s[1], s[2]))
       /\ ArchiverStep
    \/ MkdirTemp /\ ArchiverStep
    \/ WriteRunJson /\ ArchiverStep
    \/ WriteArtifact /\ ArchiverStep
    \/ MkdirResult /\ ArchiverStep
    \/ WriteResultJson /\ ArchiverStep
    \/ TarCreate /\ ArchiverStep
    \/ CleanupRm /\ ArchiverStep
    \/ CleanupRmdir /\ ArchiverStep

SpecArchive == Init /\ [][NextArchive]_vars

NextReporter ==
    \/ (rpc = "new" /\ \E o \in ReporterOptions, e \in Environments : Construct(o, e))
       /\ ReporterStep
    \/ OnBegin /\ ReporterStep
    \/ (\E t \in TestEnds : OnTestEnd(t)) /\ ReporterStep
    \/ OnEnd /\ ReporterStep
    \/ CreateLocalArchive /\ ReporterStep
    \/ MkdirTemp /\ ArchiverStep
    \/ WriteRunJson /\ ArchiverStep
    \/ WriteArtifact /\ ArchiverStep
    \/ MkdirResult /\ ArchiverStep
    \/ WriteResultJson /\ ArchiverStep
    \/ TarCreate /\ ArchiverStep
    \/ CleanupRm /\ ArchiverStep
    \/ CleanupRmdir /\ ArchiverStep
    \/ CreateLocalArchiveReturns /\ ReporterStep
    \/ UploadToServer /\ ReporterStep
    \/ UploadToS3 /\ ReporterS3Step
    \/ S3Stat /\ S3Step
    \/ S3Head /\ S3Step
    \/ S3ReadFile /\ S3Step
    \/ S3Put /\ S3Step
    \/ UploadToS3Returns /\ ReporterS3Step

SpecReporter == Init /\ [][NextReporter]_vars

(* a reporter whose onBegin is called again *)
NextRestart ==
    \/ (rpc = "new" /\ \E o \in ReporterOptions, e \in Environments : Construct(o, e))
       /\ ReporterStep
    \/ OnBegin /\ ReporterStep
    \/ (\E t \in TestEnds : OnTestEnd(t)) /\ ReporterStep
    \/ OnBeginAgain /\ ReporterStep

SpecRestart == Init /\ [][NextRestart]_vars

NextConfig ==
    \/ \E c \in Configs : ValidateConfig(c) /\ ConfigStep
    \/ \E c \in Configs : ShouldCreateArchive(c) /\ ConfigStep
    \/ \E c \in Configs : ShouldUploadToServer(c) /\ ConfigStep
    \/ \E c \in Configs, e \in ConfigEnvs : ShouldUploadToS3(c, e) /\ ConfigStep
    \/ \E c \in Configs : GetServerUrl(c) /\ ConfigStep
    \/ GetServerUrlAgain /\ ConfigStep

SpecConfig == Init /\ [][NextConfig]_vars

NextS3 ==
    \/ (s3pc = "idle" /\ \E s \in S3Inputs, b \in {"bucket", Undefined} :
            UploadToS3Directory(s[1], s[2], b, NoEnv)) /\ S3Step
    \/ UploadArchivesAgain /\ S3Step
    \/ S3Stat /\ S3Step
    \/ S3Head /\ S3Step
    \/ S3ReadFile /\ S3Step
    \/ S3Put /\ S3Step

SpecS3 == Init /\ [][NextS3]_vars

NextTypes ==
    \/ (tcall.fn = "none" /\ \E c \in RunConfigs, e \in TypesEnvs, fresh \in uuidv4 :
            ConstructTestRun(c, e, fresh)) /\ TypesStep
    \/ (tcall.fn = "none" /\ \E c \in ResultConfigs, fresh \in uuidv4 :
            ConstructTestResult(c, fresh)) /\ TypesStep
    \/ (tcall.fn = "none" /\ \E uuid \in UuidStrings : IsValidUUID(uuid))
       /\ TypesStep

SpecTypes == Init /\ [][NextTypes]_vars

----------------------------------------------------------------------------
(* Vocabulary of the properties *)

(* the network-class error codes *)
TransientCodes ==
    {"ECONNRESET", "ETIMEDOUT", "ECONNREFUSED", "ENOTFOUND", "ENETUNREACH"}

(* an Error whose message names a network-class code *)
Transient(e) == e.isError /\ \E code \in TransientCodes : Includes(e.message, code)

(* a thrown value that names no network-class code *)
NonTransient(e) == \A code \in TransientCodes : ~Includes(e.message, code)

AllTransient(es) == \A i \in 1..Len(es) : Transient(es[i])

(* the makeCall frames of a state: the one in progress and the last one    *)
(* that returned                                                           *)
Frames == {call, lastCall}

(* serverErrors changes only in the step in which a makeCall returns, so   *)
(* in every state it is the list as lastCall left it                       *)
AddedByLastCall == Len(serverErrors) - lastCall.errs0

----------------------------------------------------------------------------
(* C1: a call that fails twice with a transient error and succeeds on its  *)
(* third attempt returns the value the third attempt resolved with, and    *)
(* adds nothing to the error list (hasErrors() stays false if it was).     *)
C1_RetryThenSuccess ==
    (/\ Len(lastCall.thrown) = 2
     /\ AllTransient(lastCall.thrown)
     /\ lastCall.resolved # None)
    => /\ lastCall.ret = lastCall.resolved
       /\ lastCall.ret # Null
       /\ lastCall.attempts = 3
       /\ AddedByLastCall = 0
       /\ (lastCall.errs0 = 0 => ~hasServerError)

C1_Witness ==
    /\ Len(lastCall.thrown) = 2
    /\ AllTransient(lastCall.thrown)
    /\ lastCall.resolved = Obj
    /\ lastCall.method = "addResult"
    /\ ~hasServerError

(* C2: a non-hidden call that fails with a transient error on all three    *)
(* attempts is attempted exactly 3 times, returns null and adds exactly    *)
(* one entry to the error list.                                            *)
C2_RetriesExhausted ==
    \A c \in Frames :
        (/\ Len(c.thrown) >= 3
         /\ AllTransient(c.thrown)
         /\ ~c.hide)
        => /\ c = lastCall
           /\ c.ret = Null
           /\ c.attempts = 3
           /\ c.resolved = None
           /\ AddedByLastCall = 1
           /\ serverErrors[Len(serverErrors)] = StringOf(c.thrown[3])
           /\ hasServerError

C2_Witness ==
    /\ Len(lastCall.thrown) = 3
    /\ AllTransient(lastCall.thrown)
    /\ ~lastCall.hide
    /\ lastCall.ret = Null
    /\ Len(serverErrors) = 1

(* C3: a call whose first attempt fails with a non-transient error is      *)
(* attempted exactly once, with no delay and no retry, returns null and,   *)
(* when not hidden, records exactly one error.                             *)
C3_NonTransientFailsAtOnce ==
    \A c \in Frames :
        (Len(c.thrown) >= 1 /\ NonTransient(c.thrown[1]))
        => /\ c = lastCall
           /\ c.ret = Null
           /\ c.attempts = 1
           /\ c.delays = <<>>
           /\ (~c.hide => AddedByLastCall = 1 /\ hasServerError)

C3_Witness ==
    /\ Len(lastCall.thrown) = 1
    /\ NonTransient(lastCall.thrown[1])
    /\ ~lastCall.hide
    /\ lastCall.ret = Null
    /\ Len(serverErrors) = 1

(* C4: makeCall sleeps 1000 ms before the first retry, 2000 ms before the  *)
(* second retry, sleeps only between a failed attempt and the next         *)
(* attempt, and does not sleep after the third failed attempt.             *)
C4_BackoffDelays ==
    /\ \A c \in Frames :
          /\ Len(c.delays) <= 2
          /\ (Len(c.delays) >= 1 => c.delays[1] = 1000)
          /\ (Len(c.delays) >= 2 => c.delays[2] = 2000)
          /\ (AllTransient(c.thrown) =>
                 Len(c.delays) = IF Len(c.thrown) < 2 THEN Len(c.thrown) ELSE 2)
          /\ (Len(c.thrown) = 3 => c.ret = Null)
    /\ (pc = "sleep" => /\ call.ret = Pending
                        /\ Len(call.delays) = call.attempts
                        /\ Len(call.thrown) = call.attempts)

C4_Witness ==
    /\ lastCall.delays = <<1000, 2000>>
    /\ Len(lastCall.thrown) = 3
    /\ lastCall.ret = Null

----------------------------------------------------------------------------
(* Vocabulary of the properties about artifacts and about the order of     *)
(* the remote calls                                                        *)

(* the size of an artifact: the byte length of its content, or the size    *)
(* of the file when the content is the path of a regular file              *)
ArtifactSize(data) ==
    IF data.kind = "string" /\ data.fileSize # NoFile
    THEN data.fileSize
    ELSE data.length

Ceiling == 5 * 1024 * 1024

(* the upload-artifact call for artifact h made its first attempt *)
UploadAttempted(h) ==
    \E i \in 1..Len(trace) :
        /\ trace[i].method = "uploadArtifact"
        /\ trace[i].id = h.id
        /\ trace[i].filename = h.filename
        /\ trace[i].bytes = ArtifactSize(h.data)

(* the upload-artifact call for artifact h has been issued *)
UploadIssued(h) ==
    \/ UploadAttempted(h)
    \/ /\ pc = "call"
       /\ call.method = "uploadArtifact"
       /\ call.id = h.id
       /\ call.filename = h.filename
       /\ call.bytes = ArtifactSize(h.data)

IsRunCall(e) == e.method \in {"getRun", "addRun", "updateRun"}
IsPut(e) == e.method \in {"addRun", "updateRun"}

(* sendData has returned *)
SendDataDone == ret # <<>>

(* position of a call in the order sendData is to follow: the Run's        *)
(* artifacts, then for the k-th Result its create-result and its artifacts *)
Rank(e) ==
    IF e.id = run.id THEN 0
    ELSE LET k == CHOOSE k \in 1..Len(results) : results[k].id = e.id
         IN  IF e.method = "addResult" THEN 2 * k - 1 ELSE 2 * k

(* a second add-or-update of the Run has been attempted, lookup then       *)
(* create/update, and nothing but it follows its lookup                    *)
FinalUpdateAttempted ==
    \E j \in 2..Len(trace) :
        /\ trace[j].method = "getRun"
        /\ trace[j - 1].method # "getRun"
        /\ \A k \in j..Len(trace) : IsRunCall(trace[k])
        /\ \E k \in (j + 1)..Len(trace) : IsPut(trace[k])

(* C36: whatever the attempts of the wrapped operation do, one makeCall    *)
(* makes at most 3 attempts, makes none after the first attempt that       *)
(* resolves or the first that rejects with a non-transient error, and adds *)
(* at most one entry to the error list.                                    *)
C36_MakeCallBounded ==
    /\ \A c \in Frames :
          /\ c.attempts <= MAX_CALL_RETRIES
          /\ c.attempts = Len(c.thrown) + (IF c.resolved # None THEN 1 ELSE 0)
          /\ c.resolved # None => c.ret = c.resolved
          /\ \A k \in 1..Len(c.thrown) :
                NonTransient(c.thrown[k]) =>
                    /\ k = Len(c.thrown)
                    /\ c.resolved = None
                    /\ c.ret = Null
    /\ AddedByLastCall \in {0, 1}
    /\ call.method # None => Len(serverErrors) = call.errs0

(* a makeCall that stopped at its second attempt, which rejected with a    *)
(* non-transient error after a transient one, and recorded one error       *)
C36_Witness ==
    /\ Len(lastCall.thrown) = 2
    /\ ~NonTransient(lastCall.thrown[1])
    /\ NonTransient(lastCall.thrown[2])
    /\ lastCall.attempts = 2
    /\ lastCall.ret = Null
    /\ AddedByLastCall = 1

(* the list is the start of the other *)
IsPrefix(a, b) == Len(a) <= Len(b) /\ SubSeq(b, 1, Len(a)) = a

(* C37: in every state of a sender hasErrors() is true exactly if the      *)
(* error list is not empty, and no step, of a later sendData on the same   *)
(* sender included, removes or changes an entry of the list or lowers the  *)
(* flag.                                                                   *)
C37_ErrorsOnlyGrow ==
    /\ [](hasErrors <=> getErrors # <<>>)
    /\ [][/\ IsPrefix(serverErrors, serverErrors')
          /\ hasServerError => hasServerError']_vars

(* a second sendData on the sender has returned, with the error the first  *)
(* one recorded still in the list and a later one after it                 *)
C37_Witness ==
    /\ opsDone = 2
    /\ pc = "idle"
    /\ Len(getErrors) >= 2
    /\ lastCall.errs0 >= 1
    /\ hasErrors
    /\ ret = <<FALSE>>

(* C5: the upload-artifact call is issued for an artifact if and only if   *)
(* its size is strictly less than 5 MiB: never for exactly 5 MiB, always   *)
(* for 5 MiB minus one byte; and no other upload-artifact call is made.    *)
C5_SizeGating ==
    /\ \A k \in 1..Len(handled) :
          UploadIssued(handled[k]) <=> ArtifactSize(handled[k].data) < Ceiling
    /\ \A i \in 1..Len(trace) :
          trace[i].method = "uploadArtifact" =>
              /\ trace[i].bytes < Ceiling
              /\ \E k \in 1..Len(handled) :
                    /\ handled[k].id = trace[i].id
                    /\ handled[k].filename = trace[i].filename
                    /\ ArtifactSize(handled[k].data) = trace[i].bytes

C5_Witness ==
    /\ pc = "idle"
    /\ \E k \in 1..Len(handled) :
          /\ ArtifactSize(handled[k].data) = Ceiling
          /\ ~UploadAttempted(handled[k])
    /\ \E k \in 1..Len(handled) :
          /\ ArtifactSize(handled[k].data) = Ceiling - 1
          /\ UploadAttempted(handled[k])

(* C6: when an artifact is skipped because its size is not below 5 MiB,    *)
(* an error is recorded for it, so that sendData returns false.            *)
C6_SkipRecordsError ==
    (/\ SendDataDone
     /\ \E k \in 1..Len(handled) : ArtifactSize(handled[k].data) >= Ceiling)
    => /\ ret[1] = FALSE
       /\ serverErrors # <<>>

(* C7: sendData returns true if and only if the error list is empty when   *)
(* it returns.                                                             *)
C7_SuccessIffNoErrors ==
    SendDataDone => (ret[1] = TRUE <=> serverErrors = <<>>)

C7_Witness ==
    /\ SendDataDone
    /\ ret[1] = FALSE
    /\ Len(serverErrors) = 2
    /\ Cardinality(failedCalls) = 2

(* C8: within one sendData the remote calls are made in this order: first  *)
(* an add-or-update of the Run (lookup, then create/update), the Run's     *)
(* artifacts, then the Results in input order, each create-result before   *)
(* that Result's artifacts and all of them before the next Result; the     *)
(* second add-or-update of the Run comes after everything else.            *)
C8_CallOrder ==
    /\ \A i, j \in 1..Len(trace) :
          (i < j /\ ~IsRunCall(trace[i]) /\ ~IsRunCall(trace[j]))
          => Rank(trace[i]) <= Rank(trace[j])
    /\ \A j \in 1..Len(trace) :
          ~IsRunCall(trace[j]) => \E i \in 1..(j - 1) : IsPut(trace[i])
    /\ \A j \in 1..Len(trace) :
          IsPut(trace[j]) => (j > 1 /\ trace[j - 1].method = "getRun")
    /\ \A j, k \in 1..Len(trace) :
          (j < k /\ IsRunCall(trace[j]) /\ ~IsRunCall(trace[k]))
          => \A i \in 1..j : IsRunCall(trace[i])
    /\ \A j \in 1..Len(trace) :
          (trace[j].method = "uploadArtifact" /\ trace[j].id # run.id)
          => \E i \in 1..(j - 1) :
                 trace[i].method = "addResult" /\ trace[i].id = trace[j].id
    /\ (SendDataDone => FinalUpdateAttempted)

C8_Witness ==
    /\ SendDataDone
    /\ Len(results) = 2
    /\ \E i, j, k \in 1..Len(trace) :
          /\ trace[i].method = "addResult" /\ trace[i].id = results[1].id
          /\ trace[j].method = "uploadArtifact" /\ trace[j].id = results[1].id
          /\ trace[k].method = "addResult" /\ trace[k].id = results[2].id

(* C9: whatever earlier remote calls failed, when sendData returns every   *)
(* Result has had its create-result attempted, every artifact of           *)
(* acceptable size has had its upload attempted, and the final             *)
(* add-or-update of the Run has been attempted.                            *)
C9_ErrorIsolation ==
    SendDataDone =>
        /\ \A k \in 1..Len(results) :
              /\ \E i \in 1..Len(trace) :
                    trace[i].method = "addResult" /\ trace[i].id = results[k].id
              /\ \A a \in 1..Len(results[k].artifacts) :
                    ArtifactSize(results[k].artifacts[a].data) < Ceiling =>
                        UploadAttempted([id |-> results[k].id,
                                         filename |-> results[k].artifacts[a].filename,
                                         data |-> results[k].artifacts[a].data])
        /\ \A a \in 1..Len(run.artifacts) :
              ArtifactSize(run.artifacts[a].data) < Ceiling =>
                  UploadAttempted([id |-> run.id,
                                   filename |-> run.artifacts[a].filename,
                                   data |-> run.artifacts[a].data])
        /\ FinalUpdateAttempted

C9_Witness ==
    /\ SendDataDone
    /\ Len(results) = 2
    /\ Len(serverErrors) = 3
    /\ \E f \in failedCalls : f.method \in {"addRun", "updateRun"}
    /\ \E f \in failedCalls : f.method = "addResult" /\ f.id = results[1].id
    /\ \E f \in failedCalls : f.method = "uploadArtifact" /\ f.id = results[1].id
    /\ \E i \in 1..Len(trace) :
          /\ trace[i].method = "addResult" /\ trace[i].id = results[2].id

(* C10: in addOrUpdateRun update-run is issued exactly when the lookup     *)
(* resolved with a run, and create-run when it resolved with nothing or    *)
(* failed; a failed lookup adds nothing to the error list and by itself    *)
(* does not make sendData return false.                                    *)
C10_LookupFailureIsNotFound ==
    /\ (pc \in {"call", "sleep"} /\ IsPut(call)) =>
          /\ lastCall.method = "getRun"
          /\ (call.method = "updateRun" <=> lastCall.resolved = Obj)
          /\ (call.method = "addRun" <=> lastCall.resolved # Obj)
    /\ ((pc \in {"call", "sleep"} /\ IsPut(call) /\ lastCall.ret = Null)
          => call.method = "addRun")
    /\ lastCall.method = "getRun" =>
          /\ AddedByLastCall = 0
          /\ (lastCall.errs0 = 0 => ~hasServerError)
    /\ (/\ SendDataDone
        /\ \A f \in failedCalls : f.method = "getRun")
       => /\ ret[1] = TRUE
          /\ serverErrors = <<>>

C10_Witness ==
    /\ SendDataDone
    /\ ret[1] = TRUE
    /\ [method |-> "getRun", id |-> run.id, attempts |-> 3] \in failedCalls
    /\ trace[1].method = "getRun"
    /\ trace[2].method = "addRun"

----------------------------------------------------------------------------
(* Properties of the Artifact Store *)

(* the entity's store *)
Store(e) == heap[StoreRef(e)]

(* C14: addArtifact(name, B) on a Run or Result leaves the store holding   *)
(* exactly the names it held before and `name`, with content B under       *)
(* `name`, whatever was held under it before (in particular the A of an    *)
(* earlier addArtifact(name, A)), and every other name's content as it     *)
(* was.                                                                    *)
C14_ArtifactOverwrite ==
    [][lastOp'.op = "addArtifact" =>
           LET before == heap[StoreRef(lastOp'.entity)]
               after == heap'[StoreRef(lastOp'.entity)]
               name == lastOp'.filename
           IN  /\ DOMAIN after = DOMAIN before \cup {name}
               /\ after[name] = lastOp'.data
               /\ \A n \in DOMAIN before \ {name} : after[n] = before[n]
               /\ \A e \in Entities \ {lastOp'.entity} :
                      heap'[StoreRef(e)] = heap[StoreRef(e)]]_vars

(* a second addArtifact under a name replaced a different content, beside  *)
(* an artifact under another name                                          *)
C14_Witness ==
    /\ lastOp.op = "addArtifact"
    /\ lastOp.replaced
    /\ Store(lastOp.entity)[lastOp.filename] = lastOp.data
    /\ Cardinality(DOMAIN Store(lastOp.entity)) = 2

(* C15: the mapping getArtifacts returns is a snapshot: a caller adding,   *)
(* replacing or deleting a key of it leaves every store as it was, and an  *)
(* addArtifact leaves every mapping handed out earlier as it was.          *)
C15_SnapshotIsolation ==
    [][/\ lastOp'.op \in {"callerAssigns", "callerDeletes"} =>
              \A e \in Entities : heap'[StoreRef(e)] = heap[StoreRef(e)]
       /\ lastOp'.op = "addArtifact" =>
              \A s \in 1..Len(snaps) : heap'[snaps[s].ref] = heap[snaps[s].ref]
       /\ lastOp'.op = "getArtifacts" =>
              /\ heap'[snaps'[Len(snaps')].ref] = heap[StoreRef(lastOp'.entity)]
              /\ \A e \in Entities : heap'[StoreRef(e)] = heap[StoreRef(e)]]_vars

(* a snapshot of a store that the caller has edited and that the store,    *)
(* through a later addArtifact, has moved away from                        *)
C15_Witness ==
    /\ lastOp.op = "addArtifact"
    /\ \E s \in 1..Len(snaps) :
          /\ snaps[s].of = lastOp.entity
          /\ lastOp.filename \notin DOMAIN heap[snaps[s].ref]
          /\ \E n \in DOMAIN heap[snaps[s].ref] :
                 heap[snaps[s].ref][n] \in CallerContents

----------------------------------------------------------------------------
(* Properties of the Archiver *)

(* a write of the kind, for the owner and filename, has been attempted *)
WasAttempted(kind, owner, filename) ==
    \E a \in attempts :
        a.kind = kind /\ a.owner = owner /\ a.filename = filename

Succeeded(kind, owner, filename) ==
    [kind |-> kind, owner |-> owner, filename |-> filename, ok |-> TRUE]
        \in attempts

FailedWrite(kind, owner, filename) ==
    [kind |-> kind, owner |-> owner, filename |-> filename, ok |-> FALSE]
        \in attempts

(* run.json, every result.json and every artifact of the Run and of all    *)
(* Results has had its write attempted                                     *)
AllAttempted ==
    /\ WasAttempted("run.json", arun.id, "run.json")
    /\ \A j \in 1..Len(arun.artifacts) :
          WasAttempted("artifact", arun.id, arun.artifacts[j].filename)
    /\ \A i \in 1..Len(aresults) :
          /\ WasAttempted("result.json", aresults[i].id, "result.json")
          /\ \A j \in 1..Len(aresults[i].artifacts) :
                WasAttempted("artifact", aresults[i].id,
                             aresults[i].artifacts[j].filename)

(* the archive of the Run create was called with *)
TheArchive == <<arun.id \o ".tar.gz">>
ArchiveProduced == TheArchive \in DOMAIN tarballs

(* the staging directory of the Run *)
Staging == <<".ibutsu-temp", arun.id>>
StagingExists ==
    Staging \in dirs \/ \E p \in DOMAIN files : Under(Staging, p)

(* C16: a failed artifact write, of the Run or of a Result, never makes    *)
(* create reject: create rejects only on a failure of mkdir, run.json,     *)
(* result.json or tar, and when it returns, every artifact and every       *)
(* Result has been attempted and the archive has been produced.            *)
C16_ArtifactFailureCaught ==
    /\ rejectedAt # "artifact"
    /\ apc = "rejected" <=> rejectedAt \in {"mkdir", "run.json", "result.json", "tar"}
    /\ (\E a \in attempts : a.kind = "artifact" /\ ~a.ok) /\ rejectedAt = None
          => \/ apc \in {"runArtifacts", "resultDir", "resultJson",
                          "resultArtifacts", "tar"}
             \/ /\ apc \in {"rm", "rmdir", "returned"}
                /\ AllAttempted
                /\ ArchiveProduced

(* create has returned the archive although the first artifact of the Run  *)
(* failed; a later artifact, of a Result, was written                      *)
C16_Witness ==
    /\ apc = "returned"
    /\ ArchiveProduced
    /\ Len(arun.artifacts) >= 1
    /\ FailedWrite("artifact", arun.id, arun.artifacts[1].filename)
    /\ \E i \in 1..Len(aresults) :
          /\ Len(aresults[i].artifacts) >= 1
          /\ Succeeded("artifact", aresults[i].id, aresults[i].artifacts[1].filename)

(* C17: the archive file exists only once run.json, every result.json and  *)
(* every artifact write of the Run and of all Results has been attempted.  *)
C17_ArchiveAfterAllWrites ==
    \A p \in DOMAIN tarballs : p = TheArchive /\ AllAttempted

(* the archive of a Run with two Results and a failed artifact write *)
C17_Witness ==
    /\ ArchiveProduced
    /\ Len(aresults) >= 2
    /\ \E a \in attempts : a.kind = "artifact" /\ ~a.ok
    /\ \E a \in attempts : a.kind = "artifact" /\ a.ok

(* C18: once create has returned, the staging directory of the Run is gone *)
(* if its removal succeeded; a failed removal does not make create reject: *)
(* create has then returned the archive path all the same.                 *)
C18_CleanupBestEffort ==
    /\ rejectedAt # "cleanup"
    /\ apc = "returned" =>
          /\ aret = <<TheArchive>>
          /\ ArchiveProduced
          /\ WasAttempted("rm", arun.id, ".ibutsu-temp")
          /\ Succeeded("rm", arun.id, ".ibutsu-temp") => ~StagingExists
    /\ FailedWrite("rm", arun.id, ".ibutsu-temp") =>
          apc = "returned" /\ aret = <<TheArchive>>
    /\ aret # <<>> => apc = "returned"

(* create has returned the archive path although the removal failed *)
C18_Witness ==
    /\ apc = "returned"
    /\ aret = <<TheArchive>>
    /\ FailedWrite("rm", arun.id, ".ibutsu-temp")
    /\ StagingExists

(* the file holds what was attached: the bytes of the Buffer, the bytes of *)
(* the file the string names, or the string itself                         *)
HoldsAttached(file, data) ==
    /\ file.body = data
    /\ file.kind = IF data.kind = "buffer" THEN "bytes"
                   ELSE IF data.fileSize # NoFile THEN "copy" ELSE "utf-8"

(* the layout of Run R with its Results: the paths, relative to the        *)
(* directory that holds R                                                  *)
LayoutPaths ==
    {<<arun.id, "run.json">>}
    \cup { <<arun.id, aresults[i].id, "result.json">> : i \in 1..Len(aresults) }
    \cup { <<arun.id, arun.artifacts[j].filename>> :
             j \in { k \in 1..Len(arun.artifacts) :
                       Succeeded("artifact", arun.id, arun.artifacts[k].filename) } }
    \cup UNION { { <<arun.id, aresults[i].id, aresults[i].artifacts[j].filename>> :
                     j \in { k \in 1..Len(aresults[i].artifacts) :
                               Succeeded("artifact", aresults[i].id,
                                         aresults[i].artifacts[k].filename) } } :
                 i \in 1..Len(aresults) }

(* the tree holds exactly the layout, every artifact file holding what was *)
(* attached                                                                *)
HasLayout(tree) ==
    /\ DOMAIN tree = LayoutPaths
    /\ \A j \in 1..Len(arun.artifacts) :
          Succeeded("artifact", arun.id, arun.artifacts[j].filename) =>
              HoldsAttached(tree[<<arun.id, arun.artifacts[j].filename>>],
                            arun.artifacts[j].data)
    /\ \A i \in 1..Len(aresults) : \A j \in 1..Len(aresults[i].artifacts) :
          Succeeded("artifact", aresults[i].id, aresults[i].artifacts[j].filename) =>
              HoldsAttached(
                  tree[<<arun.id, aresults[i].id, aresults[i].artifacts[j].filename>>],
                  aresults[i].artifacts[j].data)

(* the files staged below .ibutsu-temp, named relative to it *)
Staged ==
    LET under == { p \in DOMAIN files : Under(<<".ibutsu-temp">>, p) }
    IN  [q \in { SubSeq(p, 2, Len(p)) : p \in under } |-> files[<<".ibutsu-temp">> \o q]]

(* C20: the files create has staged when it archives, and the members of   *)
(* the archive, are exactly R/run.json, R/<ri>/result.json for each        *)
(* Result, R/<filename> for each Run artifact and R/<ri>/<filename> for    *)
(* each artifact of Result ri whose write succeeded, each artifact file    *)
(* holding what was attached; the archive is R.tar.gz in the output        *)
(* directory and the only archive there.                                   *)
C20_ArchiveLayout ==
    /\ apc \in {"tar", "rm"} => HasLayout(Staged)
    /\ \A p \in DOMAIN tarballs : p = TheArchive /\ HasLayout(tarballs[p])
    /\ apc \in {"rm", "rmdir", "returned"} => ArchiveProduced

(* the archive of a Run with an artifact and two Results, one of them with *)
(* an artifact                                                             *)
C20_Witness ==
    /\ apc = "returned"
    /\ ArchiveProduced
    /\ Len(aresults) = 2
    /\ Cardinality(DOMAIN tarballs[TheArchive]) = 5

(* C33: a failure local to one Result, of creating its directory or of     *)
(* writing its result.json, does not abort the packaging: create is never  *)
(* rejected by it.                                                         *)
C33_ResultFailureIsolated ==
    ~(/\ apc = "rejected"
      /\ ai >= 1
      /\ rejectedAt \in {"mkdir", "result.json"})

(* C34: in every archive create produces, R/run.json holds the serialized  *)
(* fields of the Run and R/<ri>/result.json those of Result ri, whatever   *)
(* the artifacts are named.                                                *)
C34_JsonFilesHoldFields ==
    \A p \in DOMAIN tarballs :
        /\ <<arun.id, "run.json">> \in DOMAIN tarballs[p]
        /\ tarballs[p][<<arun.id, "run.json">>] = Json(RunToDict(arun))
        /\ \A i \in 1..Len(aresults) :
              /\ <<arun.id, aresults[i].id, "result.json">> \in DOMAIN tarballs[p]
              /\ tarballs[p][<<arun.id, aresults[i].id, "result.json">>]
                     = Json(ResultToDict(aresults[i]))

(* C38: when tar.create fails, create rejects before cleanup runs: no      *)
(* archive path is returned, no removal is attempted and the staging       *)
(* directory of the Run is left in place.                                  *)
C38_TarFailureSkipsCleanup ==
    rejectedAt = "tar" =>
        /\ apc = "rejected"
        /\ aret = <<>>
        /\ ~WasAttempted("rm", arun.id, ".ibutsu-temp")
        /\ ~WasAttempted("rmdir", arun.id, ".ibutsu-temp")
        /\ StagingExists

(* tar.create has failed for a Run with a Result, all of it staged *)
C38_Witness ==
    /\ rejectedAt = "tar"
    /\ Len(aresults) >= 1
    /\ AllAttempted
    /\ \E q \in DOMAIN files : Under(Staging, q)

----------------------------------------------------------------------------
(* Properties of the Reporter *)
(* Durations are held in milliseconds; the source divides by 1000.         *)

(* the Run exists: onBegin has run on an enabled reporter *)
Begun == enabled /\ rpc \notin {"new", "constructed"}

Counters ==
    {"failures", "errors", "xfailures", "xpasses", "skips", "tests",
     "collected", "not_run"}
StatusCounters == {"failures", "errors", "skips", "xfailures", "xpasses"}
StatusSum(s) == s.failures + s.errors + s.skips + s.xfailures + s.xpasses
Passed == {k \in 1..Len(thisResults) : thisResults[k].result = "passed"}

(* C11: after N onTestEnd events following onBegin, summary.tests = N and  *)
(* summary.collected = N, and tests is the sum of failures, errors, skips, *)
(* xfailures and xpasses plus the number of Results whose status is passed *)
C11_SummaryInvariant ==
    Begun =>
        /\ thisRun.summary.tests = Len(events)
        /\ thisRun.summary.collected = Len(events)
        /\ thisRun.summary.tests =
               StatusSum(thisRun.summary) + Cardinality(Passed)

C11_Witness ==
    /\ Begun
    /\ Len(events) >= 2
    /\ thisRun.summary.errors = 1
    /\ Cardinality(Passed) = 1

(* C12: between onBegin and the end of the session every counter is a      *)
(* natural number and no step lowers one; a step that is an onTestEnd      *)
(* raises tests and collected by exactly 1, raises at most one of          *)
(* failures/errors/skips/xfailures/xpasses, by exactly 1, and leaves       *)
(* not_run unchanged; every other step leaves the summary unchanged        *)
C12_CountersMonotone ==
    [][Begun =>
        LET s == thisRun.summary
            t == thisRun'.summary
        IN  /\ \A c \in Counters : s[c] \in Nat /\ t[c] \in Nat /\ t[c] >= s[c]
            /\ IF events' # events
               THEN /\ t.tests = s.tests + 1
                    /\ t.collected = s.collected + 1
                    /\ t.not_run = s.not_run
                    /\ StatusSum(t) - StatusSum(s) \in {0, 1}
               ELSE t = s]_vars

C12_Witness ==
    /\ Begun
    /\ rpc = "done"
    /\ thisRun.summary.tests = 2
    /\ thisRun.summary.skips = 1
    /\ thisRun.summary.failures = 1
    /\ thisRun.summary.not_run = 0

(* a Run as a sink may see it: stopped, with the time from onBegin to onEnd *)
FinalRun(d) ==
    /\ stoppedAt # <<>>
    /\ d.start_time = <<thisRun.start_unix_time>>
    /\ d.duration = stoppedAt[1] - thisRun.start_unix_time

(* Results as a sink may see them: one per event, each with the duration   *)
(* and the start time Playwright reported                                  *)
FinalResults(ds) ==
    /\ Len(ds) = Len(events)
    /\ \A k \in 1..Len(ds) :
           /\ ds[k].duration = events[k].duration
           /\ ds[k].start_time = <<events[k].startTime>>

(* C13: every sink is invoked after stopTimer, and the Run it is handed    *)
(* has its final duration and each Result its final duration and           *)
(* start_time; so has what the archiver works on and writes                *)
C13_SinksSeeTimedState ==
    /\ \A k \in 1..Len(sinks) :
           FinalRun(sinks[k].run) /\ FinalResults(sinks[k].results)
    /\ apc # "idle" =>
           /\ FinalRun(RunToDict(arun))
           /\ FinalResults([k \in 1..Len(aresults) |-> ResultToDict(aresults[k])])
           /\ \A p \in DOMAIN files :
                  Basename(p) = "run.json" /\ Dirname(p) = Staging
                      => files[p] = Json(RunToDict(thisRun))

C13_Witness ==
    /\ rpc = "done"
    /\ Len(sinks) = 2
    /\ sinks[1].sink = "createArchive"
    /\ sinks[2].sink = "uploadToS3"
    /\ Len(sinks[2].results) = 2
    /\ sinks[2].run.duration = 500
    /\ ArchiveProduced

Invoked(sink) == \E k \in 1..Len(sinks) : sinks[k].sink = sink

(* C19: when tar creation fails, create rejects, and onEnd still attempts  *)
(* the server upload in server mode and the object-store upload in s3 mode *)
C19_OtherSinksAttempted ==
    rejectedAt = "tar" =>
        /\ apc = "rejected"
        /\ rpc = "done" =>
               /\ isServerMode(config) => Invoked("sendToServer")
               /\ shouldUploadToS3(config, env) => Invoked("uploadToS3")

(* C25: when the mode is a server URL and token and project are            *)
(* configured, onEnd hands the Run and every collected Result to the       *)
(* sender (sendToServer, which calls sendData)                             *)
C25_ServerModeDelivers ==
    (/\ rpc = "done"
     /\ enabled
     /\ isServerMode(config)
     /\ NonEmpty(config.token)
     /\ NonEmpty(config.project))
        => \E k \in 1..Len(sinks) :
               /\ sinks[k].sink = "sendToServer"
               /\ sinks[k].run = RunToDict(thisRun)
               /\ Len(sinks[k].results) = Len(events)

(* C26: a non-empty token in the reporter options always disables the     *)
(* reporter at construction, and a disabled reporter stays disabled and    *)
(* its hooks do nothing: no Run, no Result, no sink, no archive            *)
C26_OptionsTokenDisables ==
    [][/\ \A o \in ReporterOptions, e \in Environments :
              NonEmpty(o.token) /\ Construct(o, e) => ~enabled' /\ config' = o
       /\ (rpc # "new" /\ ~enabled) =>
              /\ ~enabled'
              /\ UNCHANGED <<config, thisRun, thisResults, sinks, stoppedAt>>
              /\ thisRun = NewTestRun(None)
              /\ thisResults = <<>>
              /\ sinks = <<>>
              /\ UNCHANGED archiverVars
              /\ apc = "idle"]_vars

C26_Witness ==
    /\ rpc = "done"
    /\ ~enabled
    /\ config.token = "tok"
    /\ env.IBUTSU_TOKEN = "secret"
    /\ isServerMode(config)
    /\ Len(events) = 2
    /\ sinks = <<>>

(* the place of a sink in onEnd *)
SinkRank(sink) ==
    CASE sink = "createArchive" -> 1
      [] sink = "uploadToServer" -> 2
      [] sink = "sendToServer" -> 3
      [] sink = "uploadToS3" -> 4

(* createArchive is not in progress *)
ArchiveSettled == apc \in {"idle", "returned", "rejected"}

(* C35: onEnd runs its sinks one after the other in the order archive,     *)
(* server upload, object-store upload, each starting only once the one     *)
(* before has completed; so when the object-store upload scans the output  *)
(* directory after the archive sink has written <runId>.tar.gz, the        *)
(* archive is in the directory and is among the files the uploader         *)
(* considers.                                                              *)
C35_SinksSequential ==
    /\ \A k, l \in 1..Len(sinks) :
          k < l => SinkRank(sinks[k].sink) < SinkRank(sinks[l].sink)
    /\ ~ArchiveSettled =>
          /\ rpc = "inArchive"
          /\ \A k \in 1..Len(sinks) : sinks[k].sink = "createArchive"
          /\ s3pc = "idle"
    /\ rpc \in {"atServer", "atS3"} =>
          /\ ArchiveSettled
          /\ s3pc = "idle"
    /\ s3pc # "idle" =>
          /\ rpc \in {"inS3", "done"}
          /\ ArchiveSettled
          /\ Invoked("uploadToS3")
    /\ s3pc \notin {"idle", "returned", "rejected"} => rpc = "inS3"
    /\ (s3run >= 1 /\ apc = "returned") =>
          LET name == thisRun.id \o ".tar.gz"
          IN  /\ shouldCreateArchive(config)
              /\ name \in Range(Names(s3dir))
              /\ s3calls[1].op = "readdir"
              /\ s3calls[1].outcome = "ok" => name \in Range(s3files)

(* the archive of the Run was written, then found by the scan and uploaded *)
C35_Witness ==
    /\ rpc = "done"
    /\ apc = "returned"
    /\ Len(sinks) = 2
    /\ s3files = <<thisRun.id \o ".tar.gz">>
    /\ Len(s3urls) = 1
    /\ Len(thisResults) = 2

(* C39: after any onTestEnd events that follow an onBegin the reporter     *)
(* holds as many Results as run.summary.tests, one per event, also when    *)
(* the events carry the same test_id; an onBegin called again leaves an    *)
(* empty set of Results and a summary of zeros.                            *)
C39_ResultsMatchTests ==
    /\ [](Begun =>
            /\ Len(thisResults) = thisRun.summary.tests
            /\ Len(thisResults) = Len(events))
    /\ [][(enabled /\ rpc = "begun" /\ rpc' = "begunAgain") =>
            /\ thisResults' = <<>>
            /\ thisRun'.summary = ZeroSummary]_vars

(* the second Run of a reporter holds two Results of the same test_id *)
C39_Witness ==
    /\ rpc = "begunAgain"
    /\ enabled
    /\ thisRun.id = RunIds[2]
    /\ Len(thisResults) = 2
    /\ thisResults[1].test_id = thisResults[2].test_id
    /\ thisRun.summary.tests = 2

(* C40: onEnd of an enabled reporter never rejects: whichever of archive   *)
(* creation, server upload and object-store upload fail, the failure is    *)
(* logged, onEnd goes on to the next sink and resolves.                    *)
C40_OnEndNeverRejects ==
    /\ [](rpc # "rejected")
    /\ [][/\ (rpc = "inArchive" /\ rpc' # rpc) => rpc' = "atServer"
          /\ (rpc = "atServer" /\ rpc' # rpc) => rpc' = "atS3"
          /\ (rpc = "inS3" /\ rpc' # rpc) => rpc' = "done"]_vars

(* onEnd has resolved although createArchive rejected, the server upload   *)
(* was not configured or not due, and the scan of the directory failed     *)
C40_Witness ==
    /\ rpc = "done"
    /\ enabled
    /\ apc = "rejected"
    /\ s3calls # <<>>
    /\ s3calls[1].outcome = "error"

----------------------------------------------------------------------------
(* Properties of the Configuration *)

Missing(v) == v \in {Undefined, ""}
UrlModes == ConfigModes \ {Undefined, "", "archive", "s3"}
Called(fn) == cfgCall.fn = fn

C30_GetServerUrl ==
    Called("getServerUrl") =>
        LET mode == cfgCall.config.mode
            url == cfgCall.url
            stripped == IF EndsWith(mode, "/")
                        THEN SubSeq(mode, 1, Len(mode) - 1) ELSE mode
        IN  /\ (~cfgCall.again /\ mode \notin UrlModes) <=> url = Undefined
            /\ url # Undefined =>
                   /\ EndsWith(url, "/api")
                   /\ IF EndsWith(stripped, "/api")
                      THEN url = stripped
                      ELSE url = stripped \o "/api"
            /\ cfgCall.again => url = mode

C30_Witness ==
    /\ Called("getServerUrl")
    /\ cfgCall.again
    /\ cfgCall.url = "http://h/api"
    /\ cfgCall.config.mode = "http://h/api"

----------------------------------------------------------------------------
(* Properties of the S3 Uploader *)

(* the names of DirNames that are <UUID>.tar.gz *)
UuidArchives == {DirNames[2], DirNames[5]}

Calls(r, operation) ==
    {k \in 1..Len(s3calls) : s3calls[k].run = r /\ s3calls[k].op = operation}
CallsFor(r, operation, key) ==
    {k \in Calls(r, operation) : s3calls[k].key = key}
Scanned(r) == \E k \in Calls(r, "readdir") : s3calls[k].outcome = "ok"
HasReturned(r) == r <= Len(s3rets)
Matching == {n \in Range(Names(s3dir)) : n \in UuidArchives}

(* C21: the files uploadArchives works on are exactly the entries of the   *)
(* directory named <UUID>.tar.gz, in directory order; no head-object or    *)
(* put-object call is ever issued for another entry                        *)
C21_OnlyUuidArchives ==
    /\ (s3run > 0 /\ Scanned(s3run)) =>
           /\ Range(s3files) = Matching
           /\ Len(s3files) = Cardinality(Matching)
    /\ \A k \in 1..Len(s3calls) :
           s3calls[k].op \in {"stat", "head", "read", "put"}
               => s3calls[k].key \in Matching
    /\ \A r \in 1..Len(s3rets) :
           Scanned(r) => \A n \in Matching : CallsFor(r, "stat", n) # {}

C21_Witness ==
    /\ s3pc = "returned"
    /\ Len(s3dir) = 2
    /\ s3dir[1].name = DirNames[3]
    /\ s3dir[2].name = DirNames[5]
    /\ s3rets[1].urls = <<S3Url("bucket", DirNames[5])>>

(* C22: a file whose head-object answer reports an object of the file's    *)
(* size gets no put-object call and no locator in that run; and a run      *)
(* that follows a run which scanned the directory and recorded no failure  *)
(* issues no put-object call and returns the empty list, provided its own  *)
(* head-object calls are answered                                          *)
C22_IdempotentUpload ==
    /\ \A k \in 1..Len(s3calls) :
           (s3calls[k].op = "head" /\ s3calls[k].outcome = "same size") =>
               /\ CallsFor(s3calls[k].run, "put", s3calls[k].key) = {}
               /\ HasReturned(s3calls[k].run) =>
                      S3Url(s3bucket, s3calls[k].key)
                          \notin Range(s3rets[s3calls[k].run].urls)
    /\ \A r \in 2..s3run :
           (/\ Scanned(r - 1)
            /\ s3rets[r - 1].errors = <<>>
            /\ \A k \in Calls(r, "head") : s3calls[k].outcome # "error")
               => /\ Calls(r, "put") = {}
                  /\ HasReturned(r) => s3rets[r].urls = <<>>

C22_Witness ==
    /\ Len(s3rets) = 2
    /\ Len(s3rets[1].urls) = 2
    /\ s3rets[1].errors = <<>>
    /\ s3rets[2].urls = <<>>
    /\ Cardinality({k \in Calls(2, "head") : s3calls[k].outcome = "same size"}) = 2
    /\ Calls(2, "put") = {}

(* C23: after a head-object call that fails, with NotFound or with any     *)
(* other error, the file is not skipped: the upload goes on, the file is   *)
(* read and, once read, a put-object call is issued for it                 *)
C23_HeadErrorMeansUpload ==
    \A k \in 1..Len(s3calls) :
        (s3calls[k].op = "head" /\ s3calls[k].outcome \in {"NotFound", "error"}) =>
            /\ k = Len(s3calls) => s3pc = "read"
            /\ k < Len(s3calls) =>
                   /\ s3calls[k + 1].op = "read"
                   /\ s3calls[k + 1].key = s3calls[k].key
                   /\ s3calls[k + 1].outcome = "ok" =>
                          /\ k + 1 = Len(s3calls) => s3pc = "put"
                          /\ k + 1 < Len(s3calls) =>
                                 /\ s3calls[k + 2].op = "put"
                                 /\ s3calls[k + 2].key = s3calls[k].key

C23_Witness ==
    /\ s3pc = "returned"
    /\ Len(s3rets) = 1
    /\ Len(s3rets[1].urls) = 2
    /\ \E k \in Calls(1, "head") : s3calls[k].outcome = "error"
    /\ \E k \in Calls(1, "head") : s3calls[k].outcome = "NotFound"

(* the locators of the files whose put-object call succeeded in run r *)
RECURSIVE PutLocators(_, _)
PutLocators(r, k) ==
    IF k > Len(s3calls) THEN <<>>
    ELSE IF s3calls[k].run = r /\ s3calls[k].op = "put" /\ s3calls[k].outcome = "ok"
         THEN <<S3Url(s3bucket, s3calls[k].key)>> \o PutLocators(r, k + 1)
         ELSE PutLocators(r, k + 1)

(* C24: uploadArchives never rejects; a file that fails does not stop the  *)
(* files after it from being processed; the list returned holds exactly    *)
(* the locators s3://bucket/key of the files whose put-object call         *)
(* succeeded                                                               *)
C24_BatchNeverAborts ==
    /\ s3pc = "rejected" => s3run = 0 /\ s3bucket = ""
    /\ \A r \in 1..Len(s3rets) :
           /\ s3rets[r].urls = PutLocators(r, 1)
           /\ Scanned(r) => \A n \in Matching : CallsFor(r, "stat", n) # {}
           /\ Len(s3rets[r].errors) =
                  Cardinality({n \in Matching :
                      /\ Scanned(r)
                      /\ \/ ~Entry(n).isFile
                         \/ \E k \in Calls(r, "stat") \cup Calls(r, "read")
                                         \cup Calls(r, "put") :
                                s3calls[k].key = n /\ s3calls[k].outcome = "error"})

C24_Witness ==
    /\ s3pc = "returned"
    /\ Len(s3rets) = 1
    /\ Len(s3files) = 2
    /\ s3rets[1].errors = <<s3files[1]>>
    /\ s3rets[1].urls = <<S3Url("bucket", s3files[2])>>
    /\ \E k \in CallsFor(1, "put", s3files[1]) : s3calls[k].outcome = "error"

----------------------------------------------------------------------------
(* Properties of the types *)

(* the parts of the string between its hyphens *)
RECURSIVE Groups(_, _)
Groups(str, from) ==
    IF \E i \in from..Len(str) : CharAt(str, i) = "-"
    THEN LET i == CHOOSE h \in from..Len(str) :
                      /\ CharAt(str, h) = "-"
                      /\ \A l \in from..(h - 1) : CharAt(str, l) # "-"
         IN  <<SubSeq(str, from, i - 1)>> \o Groups(str, i + 1)
    ELSE <<SubSeq(str, from, Len(str))>>

IsHex(str) == \A i \in 1..Len(str) : CharAt(str, i) \in HexDigits

(* five groups of 8, 4, 4, 4 and 12 hexadecimal digits, of either case *)
HasUuidShape(str) ==
    LET g == Groups(str, 1)
    IN  /\ Len(g) = 5
        /\ [k \in 1..5 |-> Len(g[k])] = <<8, 4, 4, 4, 12>>
        /\ \A k \in 1..5 : IsHex(g[k])

(* C31: isValidUUID(x) is true exactly if x is five groups of 8, 4, 4, 4   *)
(* and 12 hexadecimal digits separated by hyphens, in any letter case; a   *)
(* truncated string, the empty string, 'not-a-uuid' and a string with one  *)
(* non-hex character are rejected; and the id a Run or a Result is given   *)
(* when it is created without one is accepted.                             *)
C31_UuidShape ==
    /\ tcall.fn = "isValidUUID" =>
          /\ tcall.valid <=> HasUuidShape(tcall.uuid)
          /\ tcall.uuid \in {"123e4567-e89b-12d3-a456-42661417400", "",
                             "not-a-uuid",
                             "123e4567-e89b-12d3-a456-42661417400g"}
                => ~tcall.valid
          /\ tcall.uuid \in {"123e4567-e89b-12d3-a456-426614174000",
                             "ABCDEF01-2345-6789-abcd-ef0123456789",
                             "123E4567-E89B-12D3-A456-426614174000"}
                => tcall.valid
    /\ (tcall.fn \in {"TestRun", "TestResult"} /\ tcall.config.id = Undefined)
          => isValidUUID(tcall.made.id)

(* an upper-case UUID has been accepted *)
C31_Witness ==
    /\ tcall.fn = "isValidUUID"
    /\ tcall.uuid = "123E4567-E89B-12D3-A456-426614174000"
    /\ tcall.valid

(* the keys the constructor of TestRun may add *)
ReservedKeys == {"jenkins", "env_id"}

(* C32: the constructor of TestRun adds to the metadata it is given only   *)
(* jenkins, when JOB_NAME and BUILD_NUMBER are both non-empty, and env_id, *)
(* when IBUTSU_ENV_ID is non-empty; every other key the caller gave keeps  *)
(* its value, and without those facts the metadata is what the caller gave *)
C32_MetadataAdditive ==
    tcall.fn = "TestRun" =>
        LET given == OrDefault(tcall.config.metadata, EmptyMap)
            m == tcall.made.metadata
            e == tcall.env
            hasJenkins == /\ e.JOB_NAME \notin {Undefined, ""}
                          /\ e.BUILD_NUMBER \notin {Undefined, ""}
            hasEnvId == e.IBUTSU_ENV_ID \notin {Undefined, ""}
        IN  /\ DOMAIN m = DOMAIN given
                            \cup (IF hasJenkins THEN {"jenkins"} ELSE {})
                            \cup (IF hasEnvId THEN {"env_id"} ELSE {})
            /\ \A k \in DOMAIN given \ ReservedKeys : m[k] = given[k]
            /\ hasJenkins =>
                  m["jenkins"] = [job_name |-> e.JOB_NAME,
                                  build_number |-> e.BUILD_NUMBER,
                                  build_url |-> e.BUILD_URL]
            /\ hasEnvId => m["env_id"] = e.IBUTSU_ENV_ID
            /\ (~hasJenkins /\ "jenkins" \in DOMAIN given) =>
                  m["jenkins"] = given["jenkins"]
            /\ (~hasEnvId /\ "env_id" \in DOMAIN given) =>
                  m["env_id"] = given["env_id"]
            /\ (~hasJenkins /\ ~hasEnvId) => m = given

(* a Run made from metadata with a key of the caller's, in a Jenkins build *)
(* with an environment id                                                  *)
C32_Witness ==
    /\ tcall.fn = "TestRun"
    /\ tcall.config.metadata = <<[k \in {"team"} |-> "mine"]>>
    /\ DOMAIN tcall.made.metadata = {"team", "jenkins", "env_id"}
    /\ tcall.made.metadata["team"] = "mine"
    /\ tcall.made.metadata["env_id"] = "stage"
    /\ tcall.made.metadata["jenkins"].job_name = "job"

====
